---- MODULE Spec2Model ----
(***************************************************************************)
(* Model of the budget-analyzer extraction / analysis pipeline.            *)
(*                                                                         *)
(*   app/config/constants.py        is_valid_mop_code,                     *)
(*                                  clean_currency_string                  *)
(*   app/services/pdf_extractor.py  MOPPDFExtractor                        *)
(*   app/services/claude_analyzer.py ClaudeAnalyzer                        *)
(*   app/api/endpoints/budget_analysis.py  the endpoints and their tasks   *)
(*   app/utils/file_utils.py        cleanup_temp_file                      *)
(*   app/utils/error_handlers.py    ERROR_CODES                            *)
(*                                                                         *)
(* Each component has its own specification over the shared variables:     *)
(*   SpecCanon    text-pattern item extraction, deduplication, validation  *)
(*   SpecExtract  MOPPDFExtractor.extract_comprehensive                    *)
(*   SpecAnalysis confidence average, budget corrections, validation       *)
(*   SpecPrompt   ClaudeAnalyzer._execute_claude_prompt                    *)
(*   SpecJob      one job: submission, background task, status, delete     *)
(*   SpecJobLive  the job under fair scheduling of its task                *)
(*   SpecJobHang  the same when an external call may never return          *)
(*   SpecCurrency clean_currency_string                                    *)
(*   SpecMerge    the project_info of a batch of documents                 *)
(*   SpecItems    cleaning of the extracted items, final analysis items    *)
(*                                                                         *)
(* Strings the code inspects character by character (item codes, model     *)
(* responses) are sequences of one-character strings.  Amounts are         *)
(* integers; Python floats are modelled by exact arithmetic.               *)
(***************************************************************************)
EXTENDS Integers, Sequences, FiniteSets, TLC

VARIABLES
    \* --- canonicalization of one list of regex matches
    cstage, crows, cpooled, cdedup, ccanon,
    \* --- extract_comprehensive
    pc, idx, results, calls, returned,
    \* --- process_pdf_analysis / process_multiple_pdfs_analysis and
    \*     analyze_mop_document_detailed
    apc, amode, afiles, aidx, aextracted, aconfidence, aconsolidated,
    avalidation, afinal,
    \* --- _execute_claude_prompt
    ppc, attempt, pcalls, psleeps, presponse, presult,
    \* --- one job of the API: its status record, its temporary files, its
    \*     background task and the requests on it
    jstore, jtemp, jpc, jmode, jnfiles, jdepth, jidx, jextracted, jprompts,
    jphases, jfinal, jquery, jdeleted,
    \* --- one call of a function: its name, its argument, its result
    fname, farg, fresult

canonVars == <<cstage, crows, cpooled, cdedup, ccanon>>
extractVars == <<pc, idx, results, calls, returned>>
analysisVars ==
    <<apc, amode, afiles, aidx, aextracted, aconfidence, aconsolidated,
      avalidation, afinal>>
promptVars == <<ppc, attempt, pcalls, psleeps, presponse, presult>>
jobVars ==
    <<jstore, jtemp, jpc, jmode, jnfiles, jdepth, jidx, jextracted,
      jprompts, jphases, jfinal, jquery, jdeleted>>
callVars == <<fname, farg, fresult>>
restVars == <<jobVars, callVars>>
vars == <<canonVars, extractVars, analysisVars, promptVars, restVars>>

\* Python's None and the empty dict
None == [none |-> TRUE]

EmptyDict == [k \in {} |-> 0]

\* the variables of a component that is not running
CanonDefaults ==
    /\ cstage = "idle" /\ crows = <<>> /\ cpooled = <<>>
    /\ cdedup = <<>> /\ ccanon = <<>>

AnalysisDefaults ==
    /\ apc = "idle" /\ amode = "single" /\ afiles = 0 /\ aidx = 0
    /\ aextracted = <<>> /\ aconfidence = None /\ aconsolidated = None
    /\ avalidation = None /\ afinal = None

PromptDefaults ==
    /\ ppc = "idle" /\ attempt = 0 /\ pcalls = <<>> /\ psleeps = <<>>
    /\ presponse = None /\ presult = None

JobDefaults ==
    /\ jstore = None /\ jtemp = {} /\ jpc = "idle" /\ jmode = "single"
    /\ jnfiles = 0 /\ jdepth = "full" /\ jidx = 0 /\ jextracted = <<>>
    /\ jprompts = <<>> /\ jphases = None /\ jfinal = None
    /\ jquery = None /\ jdeleted = FALSE

CallDefaults == fname = "idle" /\ farg = None /\ fresult = None

RestDefaults == JobDefaults /\ CallDefaults

(***************************************************************************)
(* constants.py : is_valid_mop_code                                        *)
(***************************************************************************)
Digits == {"0", "1", "2", "3", "4", "5", "6", "7", "8", "9"}

Letters ==
    {"a", "b", "c", "d", "e", "f", "g", "h", "i", "j", "k", "l", "m",
     "n", "o", "p", "q", "r", "s", "t", "u", "v", "w", "x", "y", "z",
     "A", "B", "C", "D", "E", "F", "G", "H", "I", "J", "K", "L", "M",
     "N", "O", "P", "Q", "R", "S", "T", "U", "V", "W", "X", "Y", "Z"}

\* s[i..j] is a (possibly empty) run of digits
AllDigits(s, i, j) == \A k \in i..j : s[k] \in Digits

\* re.match(r"^7\.\d{3}\.\d+[a-zA-Z]?$", s), on the whole of s
MatchCode7(s) ==
    LET n == Len(s) IN
    /\ n >= 7
    /\ s[1] = "7" /\ s[2] = "."
    /\ AllDigits(s, 3, 5)
    /\ s[6] = "."
    /\ \/ AllDigits(s, 7, n)
       \/ n >= 8 /\ AllDigits(s, 7, n - 1) /\ s[n] \in Letters

\* re.match(r"^ETE\.\d+$", s), on the whole of s
MatchCodeETE(s) ==
    LET n == Len(s) IN
    /\ n >= 5
    /\ s[1] = "E" /\ s[2] = "T" /\ s[3] = "E" /\ s[4] = "."
    /\ AllDigits(s, 5, n)

\* re.match(r"^\d{3,4}-\d+$", s), on the whole of s
MatchCodeDash(s) ==
    LET n == Len(s) IN
    \E h \in {4, 5} :
        /\ n > h
        /\ AllDigits(s, 1, h - 1)
        /\ s[h] = "-"
        /\ AllDigits(s, h + 1, n)

\* Python's "$" matches at the end of the string and before a final newline
DollarForms(s) ==
    {s} \cup (IF Len(s) > 0 /\ s[Len(s)] = "\n"
              THEN {SubSeq(s, 1, Len(s) - 1)} ELSE {})

is_valid_mop_code(code) ==
    /\ code # <<>>
    /\ \E t \in DollarForms(code) :
          MatchCode7(t) \/ MatchCodeETE(t) \/ MatchCodeDash(t)

(***************************************************************************)
(* Line items.  A regex match of TABLE_ROW_PATTERNS is carried with its    *)
(* six groups; groups 4..6 hold the values clean_currency_string returns   *)
(* for them (floats >= 0, here integers).  A description is the pair of    *)
(* its first 50 characters and the rest, so that [:50] is a projection.    *)
(***************************************************************************)
MAX_UNIT_PRICE == 10000000

Chars(str) ==
    CASE str = "7.301.1"  -> <<"7", ".", "3", "0", "1", ".", "1">>
      [] str = "7.302.1a" -> <<"7", ".", "3", "0", "2", ".", "1", "a">>
      [] str = "804"      -> <<"8", "0", "4">>
      [] str = "7.30.1"   -> <<"7", ".", "3", "0", ".", "1">>

Desc(pre, rest) == [pre |-> pre, rest |-> rest]

\* description[:50]
Prefix50(d) == d.pre

Match(code, desc, qty, price, sub) ==
    [g1 |-> code, g2 |-> desc, g3 |-> "m3", g4 |-> qty, g5 |-> price, g6 |-> sub]

\* the item dict built from one match (pdf_extractor.py 474-482)
ItemOfMatch(m) ==
    [codigo_mop |-> m.g1, descripcion |-> m.g2, unidad |-> m.g3,
     cantidad |-> m.g4, precio_unitario |-> m.g5, subtotal |-> m.g6,
     source |-> "regex"]

\* the filter of _extract_budget_items_from_text (485-488)
KeepsMatch(item) ==
    /\ is_valid_mop_code(item.codigo_mop)
    /\ item.cantidad > 0
    /\ item.precio_unitario > 0

RECURSIVE ItemsOfMatches(_)
ItemsOfMatches(ms) ==
    IF ms = <<>> THEN <<>>
    ELSE LET item == ItemOfMatch(Head(ms)) IN
         (IF KeepsMatch(item) THEN <<item>> ELSE <<>>) \o ItemsOfMatches(Tail(ms))

\* _extract_budget_items_from_text, given the matches finditer yields over
\* the three patterns in order
extract_budget_items_from_text(matches) == ItemsOfMatches(matches)

(***************************************************************************)
(* _deduplicate_budget_items and _validate_budget_items                    *)
(***************************************************************************)
\* key = (item.get("codigo_mop", ""), item.get("descripcion", "")[:50])
DedupKey(item) == <<item.codigo_mop, Prefix50(item.descripcion)>>

RECURSIVE DedupFrom(_, _)
DedupFrom(items, seen) ==
    IF items = <<>> THEN <<>>
    ELSE LET key == DedupKey(Head(items)) IN
         IF key \in seen
         THEN DedupFrom(Tail(items), seen)
         ELSE <<Head(items)>> \o DedupFrom(Tail(items), seen \cup {key})

\* faulty variants of deduplicate_budget_items: no deduplication; last seen wins
deduplicate_nothing(items) == items

RECURSIVE deduplicate_keep_last(_)
deduplicate_keep_last(items) ==
    IF items = <<>> THEN <<>>
    ELSE LET key == DedupKey(Head(items)) IN
         IF \E i \in 1..Len(Tail(items)) : DedupKey(Tail(items)[i]) = key
         THEN deduplicate_keep_last(Tail(items))
         ELSE <<Head(items)>> \o deduplicate_keep_last(Tail(items))

deduplicate_budget_items(items) == DedupFrom(items, {})

\* faulty variant of PassesValidation: the ceiling test is missing
PassesValidationNoCeiling(item) ==
    /\ is_valid_mop_code(item.codigo_mop)
    /\ ~(item.precio_unitario <= 0 \/ item.cantidad <= 0)

\* the three "continue" tests of _validate_budget_items, negated
PassesValidation(item) ==
    /\ is_valid_mop_code(item.codigo_mop)
    /\ ~(item.precio_unitario <= 0 \/ item.cantidad <= 0)
    /\ ~(item.precio_unitario > MAX_UNIT_PRICE)

validate_budget_items(items) == SelectSeq(items, PassesValidation)

(***************************************************************************)
(* MOPPDFExtractor: results of the strategies, merge, fallback trigger,    *)
(* confidence.  A text is carried by its length in characters.  A score    *)
(* is carried in tenths (0.3 is 3): the float sum 0.3+0.3+0.3+0.1 is       *)
(* 0.9999999999999999, below the cap of 1.0 like the exact sum.            *)
(***************************************************************************)
\* self.extraction_methods and self.fallback_methods
extraction_methods ==
    <<"_extract_with_pdfplumber", "_extract_with_tabula",
      "_extract_with_camelot", "_extract_with_pymupdf">>

fallback_methods == <<"_extract_with_ocr">>

\* _process_table 384-404: a processed table holds the items parsed from
\* its rows, at least one (a table without items is dropped, 404)
TablesOf(method, k) ==
    [i \in 1..k |->
        [method |-> method, table_index |-> i,
         items |-> <<[row_index |-> 1,
                      codigo_mop |-> <<"7", ".", "3", "0", "4", ".", "1">>,
                      cantidad |-> 2, precio_unitario |-> 500,
                      subtotal |-> 1000]>>]]

\* The outcome of one strategy call.  raised = FALSE: the call returned
\* the dict described by the other fields; raised = TRUE: it raised.
\* {"success": True, "text": ..., "tables": [...], "budget_items": [...]}
SuccessResult(text, tables, items) ==
    [raised |-> FALSE, success |-> TRUE, text |-> text, tables |-> tables,
     budget_items |-> items]

\* {"success": False, "error": str(e)}: no text, no tables, no items
FailedResult ==
    [raised |-> FALSE, success |-> FALSE, text |-> 0, tables |-> <<>>,
     budget_items |-> <<>>]

Raised ==
    [raised |-> TRUE, success |-> FALSE, text |-> 0, tables |-> <<>>,
     budget_items |-> <<>>]

\* the results dict of extract_comprehensive 69-83
InitialResults ==
    [text_content |-> 0,
     text_sources |-> <<>>,
     tables |-> <<>>,
     budget_items |-> <<>>,
     project_info |-> {},
     totals |-> {},
     methods_used |-> <<>>,
     pages_processed |-> 0,
     tables_found |-> 0,
     confidence_score |-> 0,
     raw_extractions |-> {},
     error |-> FALSE]

\* _merge_results; text_sources records whose text was appended
merge_results(main_result, method_result, method) ==
    IF ~method_result.success THEN main_result
    ELSE [main_result EXCEPT
            !.text_content =
                IF method_result.text > 0
                THEN (IF main_result.text_content > 0
                      THEN main_result.text_content + 2 + method_result.text
                      ELSE method_result.text)
                ELSE main_result.text_content,
            !.text_sources =
                IF method_result.text > 0
                THEN Append(main_result.text_sources, method)
                ELSE main_result.text_sources,
            !.tables = main_result.tables \o method_result.tables,
            !.budget_items = main_result.budget_items \o method_result.budget_items]

\* faulty variant of needs_fallback: "or" for "and"
needs_fallback_any(res) ==
    res.text_content < 1000 \/ Len(res.tables) < 2 \/ Len(res.budget_items) < 5

\* _needs_fallback
needs_fallback(res) ==
    res.text_content < 1000 /\ Len(res.tables) < 2 /\ Len(res.budget_items) < 5

\* faulty variant of calculate_confidence: "len(tables) >= 0" for "> 0"
calculate_confidence_tables_ge(res) ==
    LET item_count == Len(res.budget_items)
        score == (IF res.text_content > 1000 THEN 3 ELSE 0)
                 + (IF Len(res.tables) >= 0 THEN 3 ELSE 0)
                 + (IF item_count > 10 THEN 3
                    ELSE IF item_count > 5 THEN 2
                    ELSE IF item_count > 0 THEN 1 ELSE 0)
                 + (IF res.project_info # {} THEN 1 ELSE 0)
    IN IF score < 10 THEN score ELSE 10

\* _calculate_confidence, in tenths
calculate_confidence(res) ==
    LET item_count == Len(res.budget_items)
        score == (IF res.text_content > 1000 THEN 3 ELSE 0)
                 + (IF Len(res.tables) > 0 THEN 3 ELSE 0)
                 + (IF item_count > 10 THEN 3
                    ELSE IF item_count > 5 THEN 2
                    ELSE IF item_count > 0 THEN 1 ELSE 0)
                 + (IF res.project_info # {} THEN 1 ELSE 0)
    IN IF score < 10 THEN score ELSE 10

(***************************************************************************)
(* SpecCanon: one list of matches goes through the text-pattern filter,    *)
(* the deduplication and the validation, in the order of                   *)
(* _extract_with_pdfplumber (233) and _post_process_results (535, 538).    *)
(***************************************************************************)
MaxRows == 3

D1 == Desc("Excavacion en terreno", "")
D1x == Desc("Excavacion en terreno", " de cualquier naturaleza")
D2 == Desc("Terraplenes", "")

CanonMatches ==
    { Match(Chars("7.301.1"), D1, 2, 500, 1000),
      Match(Chars("7.301.1"), D1x, 2, 500, 0),
      Match(Chars("7.301.1"), D2, 2, 500, 1000),
      Match(Chars("7.301.1"), D1, 2, MAX_UNIT_PRICE + 1, 1000),
      Match(Chars("7.302.1a"), D1, 1, MAX_UNIT_PRICE, 1000),
      Match(Chars("7.302.1a"), D2, 0, 500, 1000),
      Match(Chars("7.302.1a"), D2, 2, 0, 1000),
      Match(Chars("804"), D1, 2, 500, 1000),
      Match(Chars("7.30.1"), D2, 2, 500, 1000) }

SeqsUpTo(S, n) == UNION {[1..k -> S] : k \in 0..n}

ExtractDefaults ==
    /\ pc = "idle" /\ idx = 0 /\ results = InitialResults /\ calls = <<>>
    /\ returned = FALSE

InitCanon ==
    /\ cstage = "matched"
    /\ crows \in SeqsUpTo(CanonMatches, MaxRows)
    /\ cpooled = <<>> /\ cdedup = <<>> /\ ccanon = <<>>
    /\ ExtractDefaults /\ AnalysisDefaults /\ PromptDefaults
    /\ RestDefaults

\* _extract_with_pdfplumber 233-234, merged by _merge_results 513-514
CanonExtract ==
    /\ cstage = "matched"
    /\ cpooled' = extract_budget_items_from_text(crows)
    /\ cstage' = "pooled"
    /\ UNCHANGED <<crows, cdedup, ccanon, extractVars, analysisVars,
                 promptVars, restVars>>

\* _post_process_results 535
CanonDeduplicate ==
    /\ cstage = "pooled"
    /\ cdedup' = deduplicate_budget_items(cpooled)
    /\ cstage' = "deduplicated"
    /\ UNCHANGED <<crows, cpooled, ccanon, extractVars, analysisVars,
                 promptVars, restVars>>

\* _post_process_results 538
CanonValidate ==
    /\ cstage = "deduplicated"
    /\ ccanon' = validate_budget_items(cdedup)
    /\ cstage' = "validated"
    /\ UNCHANGED <<crows, cpooled, cdedup, extractVars, analysisVars,
                 promptVars, restVars>>

NextCanon == CanonExtract \/ CanonDeduplicate \/ CanonValidate

SpecCanon == InitCanon /\ [][NextCanon]_vars

(***************************************************************************)
(* SpecExtract: extract_comprehensive on one document.  The PDF libraries  *)
(* and the OCR engine are the environment: each strategy call returns a    *)
(* successful result, returns a failed result, or raises.                  *)
(***************************************************************************)
MaxTables == 1

TextLens == {0, 499, 1001}

FillerCounts == {0, 4, 10}

DigitChar(d) ==
    CASE d = 0 -> "0" [] d = 1 -> "1" [] d = 2 -> "2" [] d = 3 -> "3"
      [] d = 4 -> "4" [] d = 5 -> "5" [] d = 6 -> "6" [] d = 7 -> "7"
      [] d = 8 -> "8" [] d = 9 -> "9"

RECURSIVE DecimalChars(_)
DecimalChars(n) ==
    IF n < 10 THEN <<DigitChar(n)>>
    ELSE Append(DecimalChars(n \div 10), DigitChar(n % 10))

\* matches of k rows with the codes 7.303.1 .. 7.303.k
FillerMatch(i) ==
    Match(<<"7", ".", "3", "0", "3", ".">> \o DecimalChars(i), D1, 2, 500, 1000)

FillerMatches(k) == [i \in 1..k |-> FillerMatch(i)]

\* a new valid row, a second match of row 7.303.1, a row over the ceiling
ExtraMatches ==
    { Match(Chars("7.301.1"), D1, 2, 500, 1000),
      Match(<<"7", ".", "3", "0", "3", ".", "1">>, D1x, 2, 500, 0),
      Match(Chars("7.302.1a"), D2, 1, MAX_UNIT_PRICE + 1, 1000) }

ExtractMatchLists ==
    {FillerMatches(k) \o tail :
        k \in FillerCounts, tail \in SeqsUpTo(ExtraMatches, 1)}

\* the rows TABLE_ROW_PATTERNS would match in the text of the OCR
OcrMatchLists == {<<>>, <<Match(Chars("7.301.1"), D1, 2, 500, 1000)>>}

\* _extract_with_ocr 338-369: the result holds the text and no item; the
\* field matches records the rows its text holds (history, not a key of
\* the dict)
OcrResult(text, matches) ==
    [raised |-> FALSE, success |-> TRUE, text |-> text, tables |-> <<>>,
     budget_items |-> <<>>, matches |-> matches]

\* what a call of the strategy can do; matches need a text to be found in
MethodOutcomes(method) ==
    {Raised, FailedResult} \cup
    CASE method = "_extract_with_pdfplumber" ->
            {SuccessResult(x[1], TablesOf(method, x[2]),
                           extract_budget_items_from_text(x[3])) :
                x \in {y \in TextLens \X (0..MaxTables) \X ExtractMatchLists :
                          y[3] = <<>> \/ y[1] > 0}}
      [] method \in {"_extract_with_tabula", "_extract_with_camelot"} ->
            {SuccessResult(0, TablesOf(method, k), <<>>) : k \in 0..MaxTables}
      [] method = "_extract_with_pymupdf" ->
            {SuccessResult(t, <<>>, <<>>) : t \in TextLens}
      [] method = "_extract_with_ocr" ->
            {OcrResult(x[1], x[2]) :
                x \in {y \in TextLens \X OcrMatchLists :
                          y[2] = <<>> \/ y[1] > 0}}

\* the log of strategy calls (history, not program state)
CallRecord(method, out) ==
    [method |-> method,
     outcome |-> IF out.raised THEN "raised"
                 ELSE IF out.success THEN "ok" ELSE "failed",
     text |-> out.text, tables |-> out.tables,
     budget_items |-> out.budget_items,
     matches |-> IF "matches" \in DOMAIN out THEN out.matches ELSE <<>>]

InitExtract ==
    /\ pc = "start" /\ idx = 0 /\ results = InitialResults /\ calls = <<>>
    /\ returned = FALSE
    /\ CanonDefaults /\ AnalysisDefaults /\ PromptDefaults
    /\ RestDefaults

\* the outer "except Exception" (136-139): record the error, return
OuterExcept(res) == [res EXCEPT !.error = TRUE]

\* 89-90: _validate_pdf; False raises ValueError into the outer except
ValidatePdf ==
    /\ pc = "start"
    /\ \/ /\ pc' = "analyze"
          /\ UNCHANGED <<results, returned>>
       \/ /\ results' = OuterExcept(results)
          /\ pc' = "done"
          /\ returned' = TRUE
    /\ UNCHANGED <<idx, calls, canonVars, analysisVars,
                 promptVars, restVars>>

\* 93-94: _analyze_document_structure returns total_pages (0 on its own
\* internal error, 199)
AnalyzeStructure ==
    /\ pc = "analyze"
    /\ \E total_pages \in {0, 1} :
          results' = [results EXCEPT !.pages_processed = total_pages]
    /\ pc' = "primary"
    /\ idx' = 1
    /\ UNCHANGED <<calls, returned, canonVars, analysisVars,
                 promptVars, restVars>>

\* faulty variant of AfterPrimaryException: no inner try, the exception reaches
\* the outer except and ends the extraction
AfterPrimaryExceptionAbort(st) ==
    [st EXCEPT !.pc = "done", !.results = OuterExcept(st.results),
               !.returned = TRUE]

\* 107-109: except Exception: log, continue
AfterPrimaryException(st) == [st EXCEPT !.idx = st.idx + 1]

\* 102-105: merge a successful result, skip any other
AfterPrimaryResult(st, method, out) ==
    IF out.success
    THEN [st EXCEPT
            !.results = [merge_results(st.results, out, method) EXCEPT
                            !.methods_used = Append(@, method),
                            !.raw_extractions = @ \cup {method}],
            !.idx = st.idx + 1]
    ELSE [st EXCEPT !.idx = st.idx + 1]

\* 97-109: one turn of the loop over the primary strategies
RunPrimary ==
    /\ pc = "primary"
    /\ idx <= Len(extraction_methods)
    /\ LET method == extraction_methods[idx]
           st == [pc |-> pc, idx |-> idx, results |-> results,
                  returned |-> returned]
       IN \E out \in MethodOutcomes(method) :
            LET nxt == IF out.raised THEN AfterPrimaryException(st)
                       ELSE AfterPrimaryResult(st, method, out)
            IN /\ calls' = Append(calls, CallRecord(method, out))
               /\ pc' = nxt.pc
               /\ idx' = nxt.idx
               /\ results' = nxt.results
               /\ returned' = nxt.returned
    /\ UNCHANGED <<canonVars, analysisVars, promptVars, restVars>>

\* 112: after the loop, decide on the fallback
FallbackCheck ==
    /\ pc = "primary"
    /\ idx > Len(extraction_methods)
    /\ pc' = IF needs_fallback(results) THEN "fallback" ELSE "post"
    /\ UNCHANGED <<idx, results, calls, returned, canonVars, analysisVars,
                 promptVars, restVars>>

\* 114-121: the fallback strategy; its result is merged when successful,
\* its exception is logged
RunFallback ==
    /\ pc = "fallback"
    /\ LET method == fallback_methods[1] IN
       \E out \in MethodOutcomes(method) :
          /\ calls' = Append(calls, CallRecord(method, out))
          /\ results' =
                IF ~out.raised /\ out.success
                THEN [merge_results(results, out, method) EXCEPT
                         !.methods_used = Append(@, method)]
                ELSE results
    /\ pc' = "post"
    /\ UNCHANGED <<idx, returned, canonVars, analysisVars,
                 promptVars, restVars>>

\* what the regular expressions of _extract_project_info / _extract_totals
\* find in a non-empty text: the keys they fill
ProjectInfoFinds == {{}, {"proyecto_nombre"}, {"proyecto_nombre", "region", "comuna"}}

TotalsFinds == {{}, {"total_general"}}

\* 124: _post_process_results
PostProcess ==
    /\ pc = "post"
    /\ \E info \in ProjectInfoFinds, tot \in TotalsFinds :
          /\ results.text_content = 0 => info = {} /\ tot = {}
          /\ results' =
                [results EXCEPT
                    !.project_info = info,
                    !.totals = tot,
                    !.budget_items =
                        validate_budget_items(deduplicate_budget_items(@))]
    /\ pc' = "metrics"
    /\ UNCHANGED <<idx, calls, returned, canonVars, analysisVars,
                 promptVars, restVars>>

\* 127-134: final metrics and return (the elapsed time is not modelled)
FinalMetrics ==
    /\ pc = "metrics"
    /\ results' = [results EXCEPT
                      !.tables_found = Len(results.tables),
                      !.confidence_score = calculate_confidence(results)]
    /\ pc' = "done"
    /\ returned' = TRUE
    /\ UNCHANGED <<idx, calls, canonVars, analysisVars,
                 promptVars, restVars>>

NextExtract ==
    \/ ValidatePdf \/ AnalyzeStructure \/ RunPrimary \/ FallbackCheck
    \/ RunFallback \/ PostProcess \/ FinalMetrics

SpecExtract == InitExtract /\ [][NextExtract]_vars

(***************************************************************************)
(* Properties of canonicalization (under SpecCanon)                        *)
(***************************************************************************)
Indices(items) == 1..Len(items)

Completeness(item) ==
    (IF item.codigo_mop # <<>> THEN 1 ELSE 0)
    + (IF item.descripcion.pre # "" THEN 1 ELSE 0)
    + (IF item.unidad # "" THEN 1 ELSE 0)
    + (IF item.cantidad # 0 THEN 1 ELSE 0)
    + (IF item.precio_unitario # 0 THEN 1 ELSE 0)
    + (IF item.subtotal # 0 THEN 1 ELSE 0)

CandidatesOf(code) == {i \in Indices(cpooled) : cpooled[i].codigo_mop = code}

\* the candidate the specification text keeps: highest score, first seen on a tie
BestCandidate(code) ==
    CHOOSE i \in CandidatesOf(code) :
        \A j \in CandidatesOf(code) :
            \/ Completeness(cpooled[j]) < Completeness(cpooled[i])
            \/ Completeness(cpooled[j]) = Completeness(cpooled[i]) /\ i <= j

SameKey(a, b) ==
    a.codigo_mop = b.codigo_mop /\ a.descripcion.pre = b.descripcion.pre

FirstSeen(i) == \A j \in 1..(i - 1) : ~SameKey(cpooled[j], cpooled[i])

C3_SurvivorsAreValid ==
    cstage = "validated" =>
        /\ \A k \in Indices(ccanon) :
              /\ is_valid_mop_code(ccanon[k].codigo_mop)
              /\ ccanon[k].cantidad > 0
              /\ ccanon[k].precio_unitario > 0
              /\ ccanon[k].precio_unitario <= MAX_UNIT_PRICE
        /\ \A k \in Indices(cdedup) :
              \/ \E m \in Indices(ccanon) : ccanon[m] = cdedup[k]
              \/ ~is_valid_mop_code(cdedup[k].codigo_mop)
              \/ cdedup[k].cantidad <= 0
              \/ cdedup[k].precio_unitario <= 0
              \/ cdedup[k].precio_unitario > MAX_UNIT_PRICE

\* validation dropped an item over the ceiling and kept one at the ceiling
C3_Witness ==
    /\ cstage = "validated"
    /\ \E k \in Indices(cdedup) : cdedup[k].precio_unitario > MAX_UNIT_PRICE
    /\ \E k \in Indices(ccanon) : ccanon[k].precio_unitario = MAX_UNIT_PRICE
    /\ Len(ccanon) < Len(cdedup)

(***************************************************************************)
(* Properties of extract_comprehensive (under SpecExtract)                 *)
(***************************************************************************)
OkCalls(cs) == SelectSeq(cs, LAMBDA c : c.outcome = "ok")

RECURSIVE SumOfTexts(_)
SumOfTexts(cs) ==
    IF cs = <<>> THEN 0 ELSE Head(cs).text + SumOfTexts(Tail(cs))

\* the length of the successful strategies' non-empty texts joined by
\* two newlines
ExpectedText(cs) ==
    LET texts == SelectSeq(OkCalls(cs), LAMBDA c : c.text > 0) IN
    IF texts = <<>> THEN 0 ELSE SumOfTexts(texts) + 2 * (Len(texts) - 1)

RECURSIVE ConcatTables(_)
ConcatTables(cs) ==
    IF cs = <<>> THEN <<>> ELSE Head(cs).tables \o ConcatTables(Tail(cs))

RECURSIVE ConcatItems(_)
ConcatItems(cs) ==
    IF cs = <<>> THEN <<>> ELSE Head(cs).budget_items \o ConcatItems(Tail(cs))

PrimaryCalls == SubSeq(calls, 1, 4)

PrimariesAllCalled ==
    /\ Len(calls) >= 4
    /\ \A i \in 1..4 : calls[i].method = extraction_methods[i]

OcrCalled == \E i \in Indices(calls) : calls[i].method = "_extract_with_ocr"

\* C4: a primary strategy that raises or returns a failed result never
\* keeps the strategies after it from running (once one strategy has been
\* called, all four primaries are called, in order, before the fallback
\* decision), and the merged text, tables and line items are exactly those
\* of the successful calls.
C4_FailureIsIsolated ==
    /\ (pc \in {"fallback", "post", "metrics", "done"} /\ calls # <<>>)
           => PrimariesAllCalled
    /\ results.text_content = ExpectedText(calls)
    /\ results.tables = ConcatTables(OkCalls(calls))
    /\ pc \in {"primary", "fallback", "post"}
           => results.budget_items = ConcatItems(OkCalls(calls))
    /\ results.methods_used = [i \in Indices(OkCalls(calls)) |->
                                 OkCalls(calls)[i].method]

\* a strategy raised, a later one failed, a still later one succeeded and
\* was merged
C4_Witness ==
    /\ pc = "done"
    /\ Len(calls) >= 4
    /\ \E i, j, k \in 1..4 :
          /\ i < j /\ j < k
          /\ calls[i].outcome = "raised"
          /\ calls[j].outcome = "failed"
          /\ calls[k].outcome = "ok"
          /\ calls[k].text > 0
    /\ results.text_content > 0

\* C5: the OCR fallback is called only after the four primary strategies
\* have been called, at most once, and exactly when the text merged from
\* them is shorter than 1000 characters and fewer than 2 tables were
\* merged and fewer than 5 line items were pooled.
C5_OcrExactlyOnTrigger ==
    /\ \A i \in Indices(calls) :
          calls[i].method = "_extract_with_ocr" =>
              i = 5 /\ PrimariesAllCalled
    /\ (pc \in {"post", "metrics", "done"} /\ calls # <<>>) =>
          (OcrCalled <=>
              /\ ExpectedText(PrimaryCalls) < 1000
              /\ Len(ConcatTables(OkCalls(PrimaryCalls))) < 2
              /\ Len(ConcatItems(OkCalls(PrimaryCalls))) < 5)

\* the fallback ran after primaries that did succeed with too little
C5_Witness ==
    /\ pc = "done"
    /\ OcrCalled
    /\ calls[5].outcome = "ok"
    /\ \E i \in 1..4 : calls[i].outcome = "ok" /\ calls[i].text > 0

\* the fallback was skipped on the item count alone
C5_WitnessSkipped ==
    /\ pc = "done"
    /\ calls # <<>> /\ ~OcrCalled
    /\ results.text_content < 1000 /\ Len(results.tables) < 2

ResultFields ==
    {"text_content", "text_sources", "tables", "budget_items", "project_info",
     "totals", "methods_used", "pages_processed", "tables_found",
     "confidence_score", "raw_extractions", "error"}

\* C6: when no strategy succeeds, extract_comprehensive returns (it does
\* not raise) a summary with all its fields, no line item, no table, no
\* text, no method used and confidence score 0.
C6_AllFailedStillReturns ==
    (pc = "done" /\ OkCalls(calls) = <<>>) =>
        /\ returned
        /\ DOMAIN results = ResultFields
        /\ results.budget_items = <<>>
        /\ results.tables = <<>>
        /\ results.text_content = 0
        /\ results.methods_used = <<>>
        /\ results.confidence_score = 0

\* the four primaries and the OCR fallback were called and none succeeded
C6_Witness ==
    /\ pc = "done"
    /\ Len(calls) = 5
    /\ OkCalls(calls) = <<>>
    /\ \E i, j \in 1..5 : calls[i].outcome = "raised" /\ calls[j].outcome = "failed"

(***************************************************************************)
(* SpecAnalysis: one background analysis task.                             *)
(*   budget_analysis.py   process_pdf_analysis (one file),                 *)
(*                        process_multiple_pdfs_analysis (a batch)         *)
(*   claude_analyzer.py   analyze_mop_document_detailed, steps 4 to 6      *)
(* Extraction confidence scores are in tenths; a quotient of floats is     *)
(* kept as numerator and denominator.  Amounts are whole pesos.            *)
(***************************************************************************)
MaxFiles == 2

MaxBadItems == 11

IsNone(x) == "none" \in DOMAIN x

Get(dict, key, default) == IF key \in DOMAIN dict THEN dict[key] ELSE default

Ratio(num, den) == [num |-> num, den |-> den]

Abs(x) == IF x < 0 THEN 0 - x ELSE x

\* x * 0.p for the percentages of the costing method
Pct(x, p) == (x * p) \div 100

\* text length, tables, rows matched, project info of one extracted file
DocSummaries ==
    { <<0, 0, 0, {}>>,
      <<499, 0, 1, {}>>,
      <<1001, 1, 6, {}>>,
      <<1001, 0, 11, {}>>,
      <<1001, 1, 11, {"proyecto_nombre"}>> }

\* what extract_comprehensive returns for such a file
DocResult(s) ==
    LET res == [InitialResults EXCEPT
                   !.text_content = s[1],
                   !.tables = TablesOf("_extract_with_pdfplumber", s[2]),
                   !.budget_items =
                       validate_budget_items(deduplicate_budget_items(
                           extract_budget_items_from_text(
                               FillerMatches(s[3])))),
                   !.project_info = s[4]]
    IN [res EXCEPT !.tables_found = Len(res.tables),
                   !.confidence_score = calculate_confidence(res)]

ExtractedDocs ==
    {OuterExcept(InitialResults)} \cup {DocResult(s) : s \in DocSummaries}

RECURSIVE SumScores(_)
SumScores(docs) ==
    IF docs = <<>> THEN 0
    ELSE Head(docs).confidence_score + SumScores(Tail(docs))

\* 626-629: sum(confidence_scores) / len(confidence_scores)
average_confidence(docs) == Ratio(SumScores(docs), Len(docs))

\* --- the payload of the budget prompt and the preprocessed content
AnalysisItem(cantidad, precio, subtotal) ==
    [codigo_mop |-> "7.301.1", cantidad |-> cantidad,
     precio_unitario |-> precio, subtotal |-> subtotal,
     categoria |-> "materials"]

\* subtotal 50000 against 1 x 40000
BadItem == AnalysisItem(1, 40000, 50000)

GoodItem == AnalysisItem(2, 25000, 50000)

NoQuantityItem == AnalysisItem(0, 40000, 50000)

MaterialLists ==
    {[i \in 1..k |-> BadItem] \o tail :
        k \in 0..MaxBadItems,
        tail \in {<<>>, <<GoodItem>>, <<NoQuantityItem>>}}

LaborLists == {<<>>, <<AnalysisItem(1, 450000, 450000)>>}

EquipmentLists ==
    {<<>>, <<AnalysisItem(1, 500000, 500000)>>,
     <<AnalysisItem(1, 50000, 0 - 50000)>>}

AnalysisDatas ==
    {[materiales_detallados |-> m,
      mano_obra_detallada |-> l,
      equipos_maquinaria_detallados |-> e,
      presupuesto_estimado |-> [total_clp |-> t],
      desglose_costos_detallado |-> EmptyDict] :
        m \in MaterialLists, l \in LaborLists, e \in EquipmentLists,
        t \in {0, 5000000}}

\* analysis_results["budget_analysis"]: None unless the prompt succeeded
BudgetAnalysisResults ==
    {None} \cup {[success |-> TRUE, data |-> d] : d \in AnalysisDatas}

(***************************************************************************)
(* claude_analyzer.py _process_budget_items: the items of the extraction   *)
(* are validated and cleaned before any prompt is built.  Codes and        *)
(* descriptions are whole texts; what the patterns find in them is listed  *)
(* text by text.                                                           *)
(***************************************************************************)
MaxRawItems == 1

RawCodes == {"7.306.2", "7.401.1", "ETE.1"}

RawDescriptions == {"Cemento", "Excavadora 7.302.5"}

\* an item as the extraction delivers it: the amounts are floats already
\* (pdf_extractor.py 478-480)
RawItem(codigo, descripcion, cantidad, precio, subtotal) ==
    [codigo_mop |-> codigo, descripcion |-> descripcion,
     cantidad |-> cantidad, precio_unitario |-> precio,
     subtotal |-> subtotal]

RawItems ==
    {RawItem(codigo, descripcion, cantidad, precio, subtotal) :
        codigo \in RawCodes, descripcion \in RawDescriptions,
        cantidad \in {0, 2}, precio \in {0, 25000},
        subtotal \in {50000, 50050, 60000}}

\* 204: re.match(r'7\.\d{3}\.\d+[a-zA-Z]?', codigo)
matches_codigo_mop(codigo) == codigo \in {"7.306.2", "7.401.1"}

\* 207: re.search of the same pattern in the description
search_codigo_mop(descripcion) ==
    IF descripcion = "Excavadora 7.302.5"
    THEN [found |-> TRUE, codigo |-> "7.302.5"]
    ELSE [found |-> FALSE, codigo |-> ""]

\* 242-255: codigo.startswith(prefix), for the codes above
starts_with(codigo, prefix) ==
    <<codigo, prefix>> \in {<<"7.302.5", "7.302">>, <<"7.304.1", "7.304">>,
                            <<"7.306.2", "7.306">>}

\* 238-266
categorize_mop_item(codigo, descripcion) ==
    IF starts_with(codigo, "7.301") THEN "limpieza_demolicion"
    ELSE IF starts_with(codigo, "7.302") THEN "movimiento_tierras"
    ELSE IF starts_with(codigo, "7.303") THEN "drenaje_alcantarillado"
    ELSE IF starts_with(codigo, "7.304") THEN "pavimentacion"
    ELSE IF starts_with(codigo, "7.305") THEN "obras_arte"
    ELSE IF starts_with(codigo, "7.306") THEN "materiales"
    ELSE IF starts_with(codigo, "7.311") THEN "mantenciones"
    ELSE IF descripcion = "Cemento" THEN "materials"
    ELSE IF descripcion = "Excavadora 7.302.5" THEN "equipment"
    ELSE "otros"

\* 308-312: isinstance(value, (int, float)) gives float(value); the
\* amounts of an extracted item are numbers
clean_numeric_value(value) == value

\* 218-223 without line 223: the subtotal is reported and kept
checked_subtotal_kept(cantidad, precio_unitario, subtotal) == subtotal

\* 218-223: a subtotal more than 100 pesos off cantidad * precio_unitario
\* is logged and replaced
checked_subtotal(cantidad, precio_unitario, subtotal) ==
    IF /\ cantidad > 0 /\ precio_unitario > 0
       /\ Abs(subtotal - cantidad * precio_unitario) > 100
    THEN cantidad * precio_unitario
    ELSE subtotal

\* _validate_and_clean_item: None for an item without a MOP code
validate_and_clean_item(item) ==
    LET in_description == search_codigo_mop(item.descripcion)
        codigo == IF matches_codigo_mop(item.codigo_mop)
                  THEN item.codigo_mop ELSE in_description.codigo
        cantidad == clean_numeric_value(item.cantidad)
        precio_unitario == clean_numeric_value(item.precio_unitario)
        subtotal == clean_numeric_value(item.subtotal)
    IN IF ~matches_codigo_mop(item.codigo_mop) /\ ~in_description.found
       THEN None
       ELSE [codigo_mop |-> codigo,
             descripcion |-> item.descripcion,
             cantidad |-> cantidad,
             precio_unitario |-> precio_unitario,
             subtotal |-> checked_subtotal(cantidad, precio_unitario,
                                           subtotal),
             categoria |-> categorize_mop_item(codigo, item.descripcion)]

RECURSIVE CleanedItems(_)
CleanedItems(raw_items) ==
    IF raw_items = <<>> THEN <<>>
    ELSE LET processed_item == validate_and_clean_item(Head(raw_items))
         IN (IF IsNone(processed_item) THEN <<>> ELSE <<processed_item>>)
                \o CleanedItems(Tail(raw_items))

\* _extract_items_from_tables 848-864: an item read from a table row has
\* cantidad 1 and its price as subtotal
TableItem(precio) ==
    [codigo_mop |-> "7.304.1", descripcion |-> "Item 7.304.1",
     cantidad |-> 1, precio_unitario |-> precio, subtotal |-> precio,
     categoria |-> categorize_mop_item("7.304.1", "")]

TableItemLists == {<<>>, <<TableItem(30000)>>}

\* _process_budget_items 182-197
process_budget_items(raw_items, table_items) ==
    LET processed_items == CleanedItems(raw_items)
    IN IF Len(processed_items) < 5 THEN processed_items \o table_items
       ELSE processed_items

\* _preprocess_mop_content 86-118: the content handed to the analysis
ProcessedContent(total_bruto, items) ==
    [financial_totals |-> [total_bruto |-> total_bruto],
     processed_items |-> items,
     project_info |-> {},
     content_length |-> 1001]

ProcessedContents ==
    {ProcessedContent(b, items) :
        b \in {0, 1000000},
        items \in {<<>>,
                   process_budget_items(
                       <<RawItem("7.306.2", "Cemento", 2, 25000, 50000),
                         RawItem("7.401.1", "Cemento", 2, 25000, 60000)>>,
                       <<>>)}}

RECURSIVE SumSubtotals(_)
SumSubtotals(items) ==
    IF items = <<>> THEN 0
    ELSE Head(items).subtotal + SumSubtotals(Tail(items))

\* 903-921 with the profit taken on the direct costs alone
CostBreakdownProfitOnDirect(materiales_total, mano_obra_total, equipos_total) ==
    LET costos_directos == materiales_total + mano_obra_total + equipos_total
        gastos_generales == Pct(costos_directos, 12)
        utilidad == Pct(costos_directos, 10)
        contingencia == Pct(costos_directos, 5)
        subtotal ==
            costos_directos + gastos_generales + utilidad + contingencia
        iva == Pct(subtotal, 19)
    IN [costos_directos |->
            [materiales |-> materiales_total, mano_obra |-> mano_obra_total,
             equipos |-> equipos_total, subcontratos |-> 0,
             total |-> costos_directos],
        costos_indirectos |->
            [gastos_generales |-> gastos_generales, utilidad |-> utilidad,
             contingencia |-> contingencia,
             total |-> gastos_generales + utilidad + contingencia],
        impuestos |->
            [subtotal |-> subtotal, iva |-> iva,
             total_final |-> subtotal + iva]]

\* _apply_budget_corrections 903-921, 933-952
CostBreakdown(materiales_total, mano_obra_total, equipos_total) ==
    LET costos_directos == materiales_total + mano_obra_total + equipos_total
        gastos_generales == Pct(costos_directos, 12)
        base_utilidad == costos_directos + gastos_generales
        utilidad == Pct(base_utilidad, 10)
        contingencia == Pct(costos_directos, 5)
        subtotal ==
            costos_directos + gastos_generales + utilidad + contingencia
        iva == Pct(subtotal, 19)
        total_final == subtotal + iva
    IN [costos_directos |->
            [materiales |-> materiales_total, mano_obra |-> mano_obra_total,
             equipos |-> equipos_total, subcontratos |-> 0,
             total |-> costos_directos],
        costos_indirectos |->
            [gastos_generales |-> gastos_generales, utilidad |-> utilidad,
             contingencia |-> contingencia,
             total |-> gastos_generales + utilidad + contingencia],
        impuestos |->
            [subtotal |-> subtotal, iva |-> iva,
             total_final |-> total_final]]

\* (part / costos_directos * 100) if costos_directos > 0 else 0
Percentage(part, costos_directos) ==
    IF costos_directos > 0 THEN Ratio(part * 100, costos_directos)
    ELSE Ratio(0, 1)

\* _apply_budget_corrections without 933-939: the breakdown is written,
\* the estimate of the payload is kept
apply_budget_corrections_keeps_estimate(analysis_data, processed_content) ==
    LET m0 == SumSubtotals(Get(analysis_data, "materiales_detallados", <<>>))
        l0 == SumSubtotals(Get(analysis_data, "mano_obra_detallada", <<>>))
        e0 == SumSubtotals(
                  Get(analysis_data, "equipos_maquinaria_detallados", <<>>))
        total_estimado ==
            Get(Get(processed_content, "financial_totals", EmptyDict),
                "total_bruto", 0)
        estimate == m0 = 0 /\ l0 = 0 /\ e0 = 0 /\ total_estimado > 0
        materiales_total == IF estimate THEN Pct(total_estimado, 45) ELSE m0
        mano_obra_total == IF estimate THEN Pct(total_estimado, 30) ELSE l0
        equipos_total == IF estimate THEN Pct(total_estimado, 25) ELSE e0
    IN [analysis_data EXCEPT
           !.desglose_costos_detallado =
               CostBreakdown(materiales_total, mano_obra_total,
                             equipos_total)]

\* _apply_budget_corrections
apply_budget_corrections(analysis_data, processed_content) ==
    LET m0 == SumSubtotals(Get(analysis_data, "materiales_detallados", <<>>))
        l0 == SumSubtotals(Get(analysis_data, "mano_obra_detallada", <<>>))
        e0 == SumSubtotals(
                  Get(analysis_data, "equipos_maquinaria_detallados", <<>>))
        total_estimado ==
            Get(Get(processed_content, "financial_totals", EmptyDict),
                "total_bruto", 0)
        estimate == m0 = 0 /\ l0 = 0 /\ e0 = 0 /\ total_estimado > 0
        materiales_total == IF estimate THEN Pct(total_estimado, 45) ELSE m0
        mano_obra_total == IF estimate THEN Pct(total_estimado, 30) ELSE l0
        equipos_total == IF estimate THEN Pct(total_estimado, 25) ELSE e0
        desglose ==
            CostBreakdown(materiales_total, mano_obra_total, equipos_total)
        d == desglose.costos_directos.total
    IN [analysis_data EXCEPT
           !.presupuesto_estimado =
               [total_clp |-> desglose.impuestos.total_final,
                materials_percentage |-> Percentage(materiales_total, d),
                labor_percentage |-> Percentage(mano_obra_total, d),
                equipment_percentage |-> Percentage(equipos_total, d),
                overhead_percentage |->
                    Percentage(desglose.costos_indirectos.total, d)],
           !.desglose_costos_detallado = desglose]

\* a risk of an analysis, told by its category and its factor
Risk(categoria, factor) == [categoria |-> categoria, factor |-> factor]

\* _create_basic_analysis 694-705: its one fixed risk
BasicRisks ==
    <<Risk("tecnico", "Analisis basico - Revision manual recomendada")>>

\* _create_fallback_response 1139-1150: its one fixed risk
FallbackRisks ==
    <<Risk("tecnico", "Analisis incompleto por limitaciones tecnicas")>>

\* _create_basic_analysis: the analysis sits under the key "analysis"
create_basic_analysis(processed_content) ==
    LET total_bruto ==
            Get(Get(processed_content, "financial_totals", EmptyDict),
                "total_bruto", 0)
        items == Get(processed_content, "processed_items", <<>>)
        estimated_total ==
            IF total_bruto = 0 THEN SumSubtotals(items) ELSE total_bruto
        first10 ==
            SubSeq(items, 1, IF Len(items) < 10 THEN Len(items) ELSE 10)
        IsMaterial(item) == item.categoria \in {"materials", "materiales"}
    IN [analysisId |-> "basic",
        analysis |->
            [presupuesto_estimado |->
                 [total_clp |-> estimated_total,
                  materials_percentage |-> Ratio(45, 1),
                  labor_percentage |-> Ratio(30, 1),
                  equipment_percentage |-> Ratio(25, 1),
                  overhead_percentage |-> Ratio(35, 1)],
             materiales_detallados |-> SelectSeq(first10, IsMaterial),
             mano_obra_detallada |-> <<>>,
             equipos_maquinaria_detallados |-> <<>>,
             analisis_riesgos_detallado |-> BasicRisks],
        metadata |->
            [confidence_score |-> 40, analysis_type |-> "basic_fallback"]]

\* _consolidate_and_correct_analysis 632-639: the basic analysis, or the
\* corrected budget answer (the merges of 641-648 are in
\* consolidated_analysis)
consolidate_and_correct_analysis(main_result, processed_content) ==
    IF IsNone(main_result) \/ ~Get(main_result, "success", FALSE)
    THEN create_basic_analysis(processed_content)
    ELSE apply_budget_corrections(Get(main_result, "data", EmptyDict),
                                  processed_content)

\* 993 without the floor at zero
confidence_from_counts_unclamped(errors, warnings) ==
    100 - Len(errors) * 25 - Len(warnings) * 10

\* 993: max(0, 100 - len(errors) * 25 - len(warnings) * 10)
confidence_from_counts(errors, warnings) ==
    LET score == 100 - Len(errors) * 25 - Len(warnings) * 10
    IN IF score > 0 THEN score ELSE 0

\* 984-987
ItemIsInconsistent(item) ==
    LET cantidad == Get(item, "cantidad", 0)
        precio == Get(item, "precio_unitario", 0)
        subtotal == Get(item, "subtotal", 0)
    IN /\ cantidad > 0 /\ precio > 0
       /\ Abs(subtotal - cantidad * precio) > 100

\* _validate_budget_consistency
validate_budget_consistency(analysis_data) ==
    LET presupuesto_total ==
            Get(Get(analysis_data, "presupuesto_estimado", EmptyDict),
                "total_clp", 0)
        desglose == Get(analysis_data, "desglose_costos_detallado", EmptyDict)
        impuestos == Get(desglose, "impuestos", EmptyDict)
        desglose_total == Get(impuestos, "total_final", 0)
        subtotal == Get(impuestos, "subtotal", 0)
        iva == Get(impuestos, "iva", 0)
        iva_esperado == Pct(subtotal, 19)
        flagged ==
            SelectSeq(Get(analysis_data, "materiales_detallados", <<>>),
                      ItemIsInconsistent)
        warnings ==
            (IF Abs(presupuesto_total - desglose_total) > 1000
             THEN <<"Diferencia en totales">> ELSE <<>>)
            \o [i \in 1..Len(flagged) |-> "Calculo item"]
        errors ==
            IF Abs(iva - iva_esperado) > 100
            THEN <<"IVA incorrecto">> ELSE <<>>
    IN [is_valid |-> Len(errors) = 0,
        warnings |-> warnings,
        errors |-> errors,
        confidence_score |-> confidence_from_counts(errors, warnings)]

\* _apply_final_corrections
apply_final_corrections(analysis_data, validation) ==
    [analysisId |-> "mop_analysis",
     analysis |-> analysis_data,
     metadata |->
         [confidence_score |-> Get(validation, "confidence_score", 75),
          validation_warnings |-> Get(validation, "warnings", <<>>),
          validation_errors |-> Get(validation, "errors", <<>>),
          is_valid |-> Get(validation, "is_valid", TRUE)]]

\* _create_fallback_response
create_fallback_response ==
    [analysisId |-> "fallback",
     analysis |-> [analisis_riesgos_detallado |-> FallbackRisks],
     metadata |->
         [confidence_score |-> 25, analysis_type |-> "limited_fallback"]]

InitAnalysis ==
    /\ apc = "extract"
    /\ amode \in {"single", "batch"}
    /\ afiles \in 1..MaxFiles
    /\ amode = "single" => afiles = 1
    /\ aidx = 0 /\ aextracted = <<>>
    /\ aconfidence = None /\ aconsolidated = None
    /\ avalidation = None /\ afinal = None
    /\ CanonDefaults /\ ExtractDefaults /\ PromptDefaults
    /\ RestDefaults

\* process_pdf_analysis 279-283: an extraction error fails the task
ExtractSingle ==
    /\ apc = "extract" /\ amode = "single"
    /\ \E extracted \in ExtractedDocs :
          IF extracted.error
          THEN /\ apc' = "failed"
               /\ UNCHANGED <<aextracted, aconfidence>>
          ELSE /\ aextracted' = <<extracted>>
               /\ aconfidence' = Ratio(extracted.confidence_score, 1)
               /\ apc' = "analyze"
    /\ UNCHANGED <<amode, afiles, aidx, aconsolidated, avalidation, afinal,
                   canonVars, extractVars, promptVars, restVars>>

\* process_multiple_pdfs_analysis 547-580: one file of the batch
ExtractBatchFile ==
    /\ apc = "extract" /\ amode = "batch" /\ aidx < afiles
    /\ \E extracted \in ExtractedDocs :
          aextracted' = IF extracted.error THEN aextracted
                        ELSE Append(aextracted, extracted)
    /\ aidx' = aidx + 1
    /\ UNCHANGED <<apc, amode, afiles, aconfidence, aconsolidated,
                   avalidation, afinal, canonVars, extractVars, promptVars, restVars>>

\* 582-629: nothing extracted fails the task; else combine the contents
CombineBatch ==
    /\ apc = "extract" /\ amode = "batch" /\ aidx = afiles
    /\ IF aextracted = <<>>
       THEN apc' = "failed" /\ UNCHANGED aconfidence
       ELSE apc' = "analyze" /\ aconfidence' = average_confidence(aextracted)
    /\ UNCHANGED <<amode, afiles, aidx, aextracted, aconsolidated,
                   avalidation, afinal, canonVars, extractVars, promptVars, restVars>>

\* analyze_mop_document_detailed 59-72
ConsolidateAndCorrect ==
    /\ apc = "analyze"
    /\ \E main_result \in BudgetAnalysisResults,
          processed_content \in ProcessedContents :
          aconsolidated' =
              consolidate_and_correct_analysis(main_result, processed_content)
    /\ apc' = "validate"
    /\ UNCHANGED <<amode, afiles, aidx, aextracted, aconfidence,
                   avalidation, afinal, canonVars, extractVars, promptVars, restVars>>

\* 82-84: an exception of steps 1 to 4 (a payload whose subtotal is not a
\* number, say) is answered with the fallback response
AnalysisRaises ==
    /\ apc = "analyze"
    /\ afinal' = create_fallback_response
    /\ apc' = "done"
    /\ UNCHANGED <<amode, afiles, aidx, aextracted, aconfidence,
                   aconsolidated, avalidation, canonVars, extractVars,
                   promptVars, restVars>>

\* 75
ValidateConsistency ==
    /\ apc = "validate"
    /\ avalidation' = validate_budget_consistency(aconsolidated)
    /\ apc' = "finalize"
    /\ UNCHANGED <<amode, afiles, aidx, aextracted, aconfidence,
                   aconsolidated, afinal, canonVars, extractVars, promptVars, restVars>>

\* 78-80
ApplyFinalCorrections ==
    /\ apc = "finalize"
    /\ afinal' = apply_final_corrections(aconsolidated, avalidation)
    /\ apc' = "done"
    /\ UNCHANGED <<amode, afiles, aidx, aextracted, aconfidence,
                   aconsolidated, avalidation, canonVars, extractVars,
                   promptVars, restVars>>

NextAnalysis ==
    \/ ExtractSingle \/ ExtractBatchFile \/ CombineBatch
    \/ ConsolidateAndCorrect \/ AnalysisRaises \/ ValidateConsistency
    \/ ApplyFinalCorrections

SpecAnalysis == InitAnalysis /\ [][NextAnalysis]_vars

\* C7: for every input the extraction confidence of each document and of
\* the task (single document or batch average) lies in [0,1], written
\* 0..10 tenths, and the confidence score of the validation and of the
\* final analysis lies in [0,100].
C7_ConfidenceInRange ==
    /\ \A i \in 1..Len(aextracted) :
          aextracted[i].confidence_score \in 0..10
    /\ ~IsNone(aconfidence) =>
          /\ aconfidence.den > 0
          /\ 0 <= aconfidence.num
          /\ aconfidence.num <= 10 * aconfidence.den
    /\ ~IsNone(avalidation) => avalidation.confidence_score \in 0..100
    /\ ~IsNone(afinal) => afinal.metadata.confidence_score \in 0..100

\* a batch of two documents with different scores, and an analysis with
\* more than ten warnings, whose score is floored at 0
C7_Witness ==
    /\ apc = "done" /\ amode = "batch" /\ Len(aextracted) = 2
    /\ aextracted[1].confidence_score = 10
    /\ aextracted[2].confidence_score = 1
    /\ aconfidence = Ratio(11, 2)
    /\ ~IsNone(avalidation)
    /\ Len(avalidation.warnings) > 10
    /\ afinal.metadata.confidence_score = 0

IsCorrected(analysis) ==
    /\ ~IsNone(analysis)
    /\ "desglose_costos_detallado" \in DOMAIN analysis

\* C8: for every value d of the direct costs the corrected breakdown has
\* overhead = 0.12 d, profit = 0.10 (d + overhead), contingency = 0.05 d,
\* subtotal = d + overhead + profit + contingency, tax = 0.19 subtotal and
\* grand total = subtotal + tax; d = 1,000,000 gives 120,000 / 112,000 /
\* 50,000 / 1,282,000 / 243,580 / 1,525,580.
C8_CostingFormula ==
    IsCorrected(aconsolidated) =>
        LET b == aconsolidated.desglose_costos_detallado
            d == b.costos_directos.total
            overhead == b.costos_indirectos.gastos_generales
            profit == b.costos_indirectos.utilidad
            contingency == b.costos_indirectos.contingencia
            subtotal == b.impuestos.subtotal
            tax == b.impuestos.iva
            grand_total == b.impuestos.total_final
        IN /\ d = b.costos_directos.materiales + b.costos_directos.mano_obra
                  + b.costos_directos.equipos
           /\ 100 * overhead = 12 * d
           /\ 100 * profit = 10 * (d + overhead)
           /\ 100 * contingency = 5 * d
           /\ subtotal = d + overhead + profit + contingency
           /\ 100 * tax = 19 * subtotal
           /\ grand_total = subtotal + tax
           /\ aconsolidated.presupuesto_estimado.total_clp = grand_total
           /\ d = 1000000 =>
                 /\ overhead = 120000 /\ profit = 112000
                 /\ contingency = 50000 /\ subtotal = 1282000
                 /\ tax = 243580 /\ grand_total = 1525580

\* direct costs of 1,000,000 summed from detailed items
C8_Witness ==
    /\ IsCorrected(aconsolidated)
    /\ aconsolidated.materiales_detallados # <<>>
    /\ aconsolidated.desglose_costos_detallado.costos_directos.total = 1000000
    /\ aconsolidated.desglose_costos_detallado.impuestos.total_final = 1525580

(***************************************************************************)
(* SpecPrompt: ClaudeAnalyzer._execute_claude_prompt.                      *)
(* A response text is a sequence of characters: the braces, " " for white  *)
(* space, "k" for a well-formed member ("key": value) and "x" for any      *)
(* other text.  pcalls logs what each call of the service met.             *)
(***************************************************************************)
max_retries == 3

MaxResponseLen == 3

ResponseChars == {"{", "}", " ", "k", "x"}

ResponseTexts == SeqsUpTo(ResponseChars, MaxResponseLen)

\* str.strip()
RECURSIVE lstrip(_)
lstrip(text) ==
    IF text # <<>> /\ Head(text) = " " THEN lstrip(Tail(text)) ELSE text

RECURSIVE rstrip(_)
rstrip(text) ==
    IF text # <<>> /\ text[Len(text)] = " "
    THEN rstrip(SubSeq(text, 1, Len(text) - 1)) ELSE text

strip(text) == rstrip(lstrip(text))

Positions(text, ch) == {i \in 1..Len(text) : text[i] = ch}

\* str.find and str.rfind: 0-based index, -1 when ch is absent
find(text, ch) ==
    IF Positions(text, ch) = {} THEN 0 - 1
    ELSE (CHOOSE i \in Positions(text, ch) :
              \A j \in Positions(text, ch) : i <= j) - 1

rfind(text, ch) ==
    IF Positions(text, ch) = {} THEN 0 - 1
    ELSE (CHOOSE i \in Positions(text, ch) :
              \A j \in Positions(text, ch) : i >= j) - 1

\* text[start:end] for 0 <= start < end <= len(text)
Slice(text, start, end) == SubSeq(text, start + 1, end)

NotSpace(ch) == ch # " "

\* json.loads succeeds on an object that is empty or holds one member
json_loads_ok(json_content) ==
    SelectSeq(json_content, NotSpace) \in {<<"{", "}">>, <<"{", "k", "}">>}

\* for attempt in range(self.max_retries), one step too far
range_max_retries_inclusive == 0..max_retries

\* for attempt in range(self.max_retries)
range_max_retries == 0..(max_retries - 1)

\* what one iteration does: leave the function (returned or raised) with a
\* result, or go on, perhaps after a sleep
Returns(result) ==
    [exit |-> "returned", result |-> result, sleep |-> <<>>]

Continues(sleep) == [exit |-> "none", result |-> None, sleep |-> sleep]

Escapes == [exit |-> "raised", result |-> None, sleep |-> <<>>]

\* 1106-1111 without the handler of the last attempt
AfterApiErrorUncaught(attempt_no) ==
    IF attempt_no = max_retries - 1 THEN Escapes
    ELSE Continues(<<2 ^ attempt_no>>)

\* 1106-1111: except Exception
AfterApiError(attempt_no) ==
    IF attempt_no = max_retries - 1
    THEN Returns([success |-> FALSE, error |-> "api"])
    ELSE Continues(<<2 ^ attempt_no>>)

\* 1101-1104: except json.JSONDecodeError
AfterJsonError(attempt_no) ==
    IF attempt_no = max_retries - 1
    THEN Returns([success |-> FALSE, error |-> "Error parsing JSON"])
    ELSE Continues(<<>>)

\* what the response holds: "ok", "malformed" or "no_payload"
PayloadKind(text) ==
    LET response_text == strip(text)
        json_start == find(response_text, "{")
        json_end == rfind(response_text, "}") + 1
    IN IF json_start >= 0 /\ json_end > json_start
       THEN IF json_loads_ok(Slice(response_text, json_start, json_end))
            THEN "ok" ELSE "malformed"
       ELSE "no_payload"

\* 1083-1099 and the handler 1101-1104
AfterResponse(attempt_no, text) ==
    LET response_text == strip(text)
        json_start == find(response_text, "{")
        json_end == rfind(response_text, "}") + 1
    IN IF json_start >= 0 /\ json_end > json_start
       THEN LET json_content == Slice(response_text, json_start, json_end)
            IN IF json_loads_ok(json_content)
               THEN Returns([success |-> TRUE, data |-> json_content,
                             raw_response |-> response_text])
               ELSE AfterJsonError(attempt_no)
       ELSE Continues(<<>>)

InitPrompt ==
    /\ ppc = "loop" /\ attempt = 0 /\ pcalls = <<>> /\ psleeps = <<>>
    /\ presponse = None /\ presult = None
    /\ CanonDefaults /\ ExtractDefaults /\ AnalysisDefaults
    /\ RestDefaults

\* the end of an iteration: return, raise, next attempt, or 1113 when the
\* range is used up
EndOfIteration(after) ==
    /\ psleeps' = psleeps \o after.sleep
    /\ IF after.exit # "none"
       THEN ppc' = after.exit /\ presult' = after.result
                              /\ attempt' = attempt
       ELSE IF attempt + 1 \in range_max_retries
       THEN ppc' = "loop" /\ presult' = presult /\ attempt' = attempt + 1
       ELSE ppc' = "returned" /\ presult' = None /\ attempt' = attempt

\* an iteration whose call of the service raises
AttemptApiError ==
    /\ ppc = "loop" /\ attempt \in range_max_retries
    /\ pcalls' = Append(pcalls, "api_error")
    /\ presponse' = None
    /\ EndOfIteration(AfterApiError(attempt))
    /\ UNCHANGED <<canonVars, extractVars, analysisVars, restVars>>

\* an iteration whose call of the service answers
AttemptResponse ==
    /\ ppc = "loop" /\ attempt \in range_max_retries
    /\ \E text \in ResponseTexts :
          /\ pcalls' = Append(pcalls, PayloadKind(text))
          /\ presponse' = text
          /\ EndOfIteration(AfterResponse(attempt, text))
    /\ UNCHANGED <<canonVars, extractVars, analysisVars, restVars>>

NextPrompt == AttemptApiError \/ AttemptResponse

SpecPrompt == InitPrompt /\ [][NextPrompt]_vars

\* C9: one run calls the service at most max_retries times, whatever the
\* calls meet, and a call that met a parseable payload is the last one.
C9_BoundedCalls ==
    /\ Len(pcalls) <= max_retries
    /\ \A i \in 1..Len(pcalls) :
          pcalls[i] = "ok" => i = Len(pcalls) /\ ppc = "returned"

\* an API error, then a parseable payload, and the run is over
C9_Witness ==
    /\ ppc = "returned" /\ pcalls = <<"api_error", "ok">>
    /\ psleeps = <<1>> /\ presult.success

Exhausted ==
    /\ ppc # "loop" /\ Len(pcalls) = max_retries
    /\ pcalls[max_retries] # "ok"

\* C10 as stated: with all attempts used up the run returns a result whose
\* success flag is false, and never raises.
C10_ExhaustedReturnsFailedResult ==
    /\ ppc # "raised"
    /\ Exhausted =>
          /\ ~IsNone(presult)
          /\ "success" \in DOMAIN presult /\ ~presult.success

\* C10: with all attempts used up the run never raises; it returns a
\* result whose success flag is false when the last attempt met an API
\* error or a malformed payload, and None when the last response held no
\* payload.
C10_ExhaustedReturnsFailedOrNone ==
    /\ ppc # "raised"
    /\ Exhausted =>
          /\ ppc = "returned"
          /\ pcalls[max_retries] \in {"api_error", "malformed"} =>
                /\ "success" \in DOMAIN presult /\ ~presult.success
          /\ pcalls[max_retries] = "no_payload" => IsNone(presult)

\* three attempts, the last response holding no payload at all
C10_Witness ==
    /\ Exhausted
    /\ pcalls = <<"api_error", "malformed", "no_payload">>
    /\ IsNone(presult)

(***************************************************************************)
(* SpecJob: one job of the API, from the upload to the end of its          *)
(* background task, with the status and delete requests on it.             *)
(*   budget_analysis.py   analyze_pdf, analyze_multiple_pdfs,              *)
(*                        process_pdf_analysis,                            *)
(*                        process_multiple_pdfs_analysis,                  *)
(*                        get_analysis_result, delete_analysis_result      *)
(*   claude_analyzer.py   _multi_prompt_analysis and steps 4 to 6 of       *)
(*                        analyze_mop_document_detailed                    *)
(*   file_utils.py        cleanup_temp_file                                *)
(* The task is cut at its awaits; a request runs between two pieces.       *)
(* jtemp holds the indices of the temporary files named after the job;     *)
(* jprompts logs the phase of every prompt sent to the service.            *)
(***************************************************************************)
MaxJobFiles == 2

\* what the service does at one call: it fails, or it answers a text
ServiceBehaviours ==
    {[api_error |-> TRUE, text |-> <<>>]} \cup
    {[api_error |-> FALSE, text |-> t] :
        t \in {<<"{", "k", "}">>, <<"{", "x", "}">>, <<"x">>}}

Services == [1..max_retries -> ServiceBehaviours]

\* the loop of _execute_claude_prompt from iteration attempt_no on
RECURSIVE RunAttempts(_, _)
RunAttempts(attempt_no, service) ==
    LET does == service[attempt_no + 1]
        after == IF does.api_error THEN AfterApiError(attempt_no)
                 ELSE AfterResponse(attempt_no, does.text)
    IN IF after.exit # "none"
       THEN [exit |-> after.exit, result |-> after.result,
             calls |-> attempt_no + 1]
       ELSE IF attempt_no + 1 \in range_max_retries
       THEN RunAttempts(attempt_no + 1, service)
       ELSE [exit |-> "returned", result |-> None, calls |-> attempt_no + 1]

\* _execute_claude_prompt: its result and the number of calls it made
execute_claude_prompt(service) == RunAttempts(0, service)

\* every run of the runner: what it returns and how many calls it made
PromptRuns == {execute_claude_prompt(service) : service \in Services}

\* "if result and result.get("success")"
Succeeded(result) == ~IsNone(result) /\ Get(result, "success", FALSE)

\* an item whose subtotal came as a text ("1.234.567"), not as a number
TextSubtotalItem ==
    [codigo_mop |-> "7.301.1", cantidad |-> 1, precio_unitario |-> 40000,
     subtotal |-> 0, categoria |-> "materials", subtotal_is_text |-> TRUE]

\* the risks the budget prompt asks for in its own answer (567-579)
BudgetRisks == <<Risk("financiero", "Alza del precio del acero")>>

BudgetPayload(materiales) ==
    [materiales_detallados |-> materiales,
     analisis_riesgos_detallado |-> BudgetRisks,
     mano_obra_detallada |-> <<AnalysisItem(1, 450000, 450000)>>,
     equipos_maquinaria_detallados |-> <<AnalysisItem(1, 500000, 500000)>>,
     presupuesto_estimado |-> [total_clp |-> 5000000],
     desglose_costos_detallado |-> EmptyDict]

\* the parsed payload of a successful budget prompt
BudgetPayloads ==
    {BudgetPayload(<<GoodItem>>), BudgetPayload(<<BadItem>>),
     BudgetPayload(<<TextSubtotalItem>>)}

\* 880-890: "total += item.get("subtotal", 0)" raises TypeError on a text
SubtotalsRaise(analysis_data) ==
    \E key \in {"materiales_detallados", "mano_obra_detallada",
                "equipos_maquinaria_detallados"} :
        \E i \in 1..Len(Get(analysis_data, key, <<>>)) :
            Get(analysis_data[key][i], "subtotal_is_text", FALSE)

\* a provider payload whose list holds a text where a dict is expected
MalformedProviders == [proveedores_materiales |-> <<[is_text |-> TRUE]>>]

\* the parsed payload of a successful provider prompt
ProviderPayloads == {EmptyDict, MalformedProviders}

\* _merge_provider_analysis 802-806: "provider.get" raises on a text
ProvidersRaise(provider_data) ==
    \E category \in DOMAIN provider_data :
        \E i \in 1..Len(provider_data[category]) :
            Get(provider_data[category][i], "is_text", FALSE)

\* the parsed payload of a successful risk prompt (1017-1028): one risk
\* the budget answer has too, and one it has not
RiskPayload ==
    [riesgos_tecnicos |-> <<[factor |-> "Suelo inestable"]>>,
     riesgos_financieros |-> <<[factor |-> "Alza del precio del acero"]>>]

RiskCategories ==
    <<"riesgos_tecnicos", "riesgos_financieros", "riesgos_operacionales",
      "riesgos_ambientales">>

\* category.replace("riesgos_", "")
RiskCategoryName(category) ==
    CASE category = "riesgos_tecnicos" -> "tecnicos"
      [] category = "riesgos_financieros" -> "financieros"
      [] category = "riesgos_operacionales" -> "operacionales"
      [] category = "riesgos_ambientales" -> "ambientales"

\* _merge_risk_analysis 771-786
RECURSIVE additional_risks(_, _)
additional_risks(risk_data, categories) ==
    IF categories = <<>> THEN <<>>
    ELSE LET category == Head(categories)
             listed == Get(risk_data, category, <<>>)
         IN [i \in 1..Len(listed) |->
                Risk(RiskCategoryName(category),
                     Get(listed[i], "factor", ""))]
            \o additional_risks(risk_data, Tail(categories))

\* _merge_risk_analysis 765-794
merge_risk_analysis(main_analysis, risk_data) ==
    IF "analisis_riesgos_detallado" \in DOMAIN main_analysis
    THEN LET existing == main_analysis.analisis_riesgos_detallado
             existing_factors ==
                 {existing[i].factor : i \in 1..Len(existing)}
             IsNew(risk) == risk.factor \notin existing_factors
         IN [main_analysis EXCEPT
                !.analisis_riesgos_detallado =
                    existing \o SelectSeq(
                        additional_risks(risk_data, RiskCategories), IsNew)]
    ELSE main_analysis

\* 641-644 with the fixed risks of the basic analysis put in the place of
\* a risk result that is missing
enrich_analysis_generic(corrected_analysis, analysis_results) ==
    IF ~IsNone(analysis_results.risk_analysis)
    THEN merge_risk_analysis(corrected_analysis,
                             Get(analysis_results.risk_analysis, "data",
                                 EmptyDict))
    ELSE [corrected_analysis EXCEPT !.analisis_riesgos_detallado = BasicRisks]

\* _consolidate_and_correct_analysis 641-644: the risks of the risk
\* prompt are merged when it left a result (the provider merge, 646-648,
\* adds keys that no later step reads)
enrich_analysis(corrected_analysis, analysis_results) ==
    IF ~IsNone(analysis_results.risk_analysis)
    THEN merge_risk_analysis(corrected_analysis,
                             Get(analysis_results.risk_analysis, "data",
                                 EmptyDict))
    ELSE corrected_analysis

\* _consolidate_and_correct_analysis 632-650 on analysis_results
consolidated_analysis(analysis_results, processed_content) ==
    LET main ==
            consolidate_and_correct_analysis(
                analysis_results.budget_analysis, processed_content)
    IN IF Succeeded(analysis_results.budget_analysis)
       THEN enrich_analysis(main, analysis_results)
       ELSE main

\* _consolidate_and_correct_analysis 632-648: does it raise
ConsolidationRaises(analysis_results) ==
    /\ Succeeded(analysis_results.budget_analysis)
    /\ \/ SubtotalsRaise(analysis_results.budget_analysis.data)
       \/ /\ Succeeded(analysis_results.provider_analysis)
          /\ ProvidersRaise(analysis_results.provider_analysis.data)

\* 642-648 without the tests: reading the data of a phase that left no
\* result raises, and the run ends in the fallback response
finish_analysis_unguarded(analysis_results, processed_content) ==
    IF \/ ConsolidationRaises(analysis_results)
       \/ /\ Succeeded(analysis_results.budget_analysis)
          /\ IsNone(analysis_results.risk_analysis)
    THEN create_fallback_response
    ELSE LET consolidated ==
                 consolidated_analysis(analysis_results, processed_content)
         IN apply_final_corrections(
                consolidated, validate_budget_consistency(consolidated))

\* analyze_mop_document_detailed 68-84 on the results of the prompts:
\* an exception of steps 4 to 6 ends in the fallback response
finish_analysis(analysis_results, processed_content) ==
    IF ConsolidationRaises(analysis_results)
    THEN create_fallback_response
    ELSE LET consolidated ==
                 consolidated_analysis(analysis_results, processed_content)
         IN apply_final_corrections(
                consolidated, validate_budget_consistency(consolidated))

\* 342-346
NoPhaseResults ==
    [budget_analysis |-> None, risk_analysis |-> None,
     provider_analysis |-> None]

\* process_multiple_pdfs_analysis 584: the text of the exception
NoContentError == "No se pudo extraer contenido de ningun archivo PDF"

\* the status record written by analyze_pdf 89-99
NewRecord ==
    [status |-> "processing", progress |-> 0, data |-> None, error |-> ""]

Present == ~IsNone(jstore)

JobFiles == 0..(jnfiles - 1)

\* cleanup_temp_file 68-75: every unlink may fail and leave its file
CleanupOutcomes(files) == SUBSET files

\* process_multiple_pdfs_analysis 684-691: the first unlink that fails
\* ends the loop
BatchCleanupOutcomes(files) ==
    {{f \in files : f >= k} : k \in 0..MaxJobFiles + 1}

TaskCleanupOutcomes(files) ==
    IF jmode = "single" THEN CleanupOutcomes(files)
    ELSE BatchCleanupOutcomes(files)

\* the progress written at each step, with the analysis step too low
progress_at_low_analysis(step) ==
    CASE step = "single_start" -> 10
      [] step = "batch_start" -> 5
      [] step = "combine" -> 45
      [] step = "analysis" -> 40
      [] step = "completed" -> 100

\* the progress written at each step of the two tasks
progress_at(step) ==
    CASE step = "single_start" -> 10
      [] step = "batch_start" -> 5
      [] step = "combine" -> 45
      [] step = "analysis" -> 50
      [] step = "completed" -> 100

\* 545, 552-553: int(5 + idx * (40 / len(pdf_files_info)))
batch_progress(file_idx, files) == 5 + (file_idx * 40) \div files

InitJob ==
    /\ jstore = None /\ jtemp = {} /\ jpc = "request"
    /\ jmode \in {"single", "batch"}
    /\ jnfiles \in 1..MaxJobFiles
    /\ jmode = "single" => jnfiles = 1
    /\ jdepth \in {"full", "detailed", "quick"}
    /\ jidx = 0 /\ jextracted = <<>> /\ jprompts = <<>>
    /\ jphases = None /\ jfinal = None /\ jquery = None
    /\ jdeleted = FALSE
    /\ CanonDefaults /\ ExtractDefaults /\ AnalysisDefaults
    /\ PromptDefaults /\ CallDefaults

\* analyze_pdf 56-86, analyze_multiple_pdfs 395-450: a request that fails
\* a validation is answered with an HTTP error; the batch has then saved
\* the files before the failing one
SubmitRejected ==
    /\ jpc = "request"
    /\ \E saved \in 0..jnfiles :
          /\ jmode = "single" => saved = 0
          /\ jtemp' = {f \in JobFiles : f < saved}
    /\ jpc' = "rejected"
    /\ UNCHANGED <<jstore, jmode, jnfiles, jdepth, jidx, jextracted,
                   jprompts, jphases, jfinal, jquery, jdeleted>>
    /\ UNCHANGED <<canonVars, extractVars, analysisVars, promptVars,
                   callVars>>

\* analyze_pdf 86-113, analyze_multiple_pdfs 437-477: the files are saved,
\* the record is written, the task is queued
SubmitAccepted ==
    /\ jpc = "request"
    /\ jtemp' = JobFiles
    /\ jstore' = NewRecord
    /\ jpc' = "queued"
    /\ UNCHANGED <<jmode, jnfiles, jdepth, jidx, jextracted, jprompts,
                   jphases, jfinal, jquery, jdeleted>>
    /\ UNCHANGED <<canonVars, extractVars, analysisVars, promptVars,
                   callVars>>

\* the "except Exception" and the "finally" of the two tasks (316-332,
\* 667-691): the error is written to the record and the files are
\* cleaned; on a deleted record the handler raises KeyError itself
TaskFails(text) ==
    /\ IF Present
       THEN /\ jstore' = [jstore EXCEPT !.status = "error", !.error = text]
            /\ jpc' = "finished"
       ELSE /\ jstore' = jstore
            /\ jpc' = "crashed"
    /\ jtemp' \in TaskCleanupOutcomes(jtemp)

\* a step of the task that writes the progress and goes on
TaskGoesOn(progress, next) ==
    IF Present
    THEN /\ jstore' = [jstore EXCEPT !.progress = progress]
         /\ jpc' = next
         /\ jtemp' = jtemp
    ELSE TaskFails("KeyError")

\* process_pdf_analysis 272-279, process_multiple_pdfs_analysis 520-557:
\* the first progress, up to the first extraction
TaskStart ==
    /\ jpc = "queued"
    /\ IF jmode = "single"
       THEN TaskGoesOn(progress_at("single_start"), "extract")
       ELSE TaskGoesOn(batch_progress(0, jnfiles), "extract")
    /\ UNCHANGED <<jmode, jnfiles, jdepth, jidx, jextracted, jprompts,
                   jphases, jfinal, jquery, jdeleted>>
    /\ UNCHANGED <<canonVars, extractVars, analysisVars, promptVars,
                   callVars>>

\* process_pdf_analysis 279-290: the extraction is back
ExtractDone ==
    /\ jpc = "extract" /\ jmode = "single"
    /\ \E outcome \in {"ok", "error"} :
          IF outcome = "error"
          THEN /\ TaskFails("Error extrayendo PDF: Archivo PDF invalido")
               /\ UNCHANGED <<jextracted, jphases>>
          ELSE /\ TaskGoesOn(progress_at("analysis"), "budget")
               /\ jextracted' = <<outcome>>
               /\ jphases' = NoPhaseResults
    /\ UNCHANGED <<jmode, jnfiles, jdepth, jidx, jprompts, jfinal, jquery,
                   jdeleted>>
    /\ UNCHANGED <<canonVars, extractVars, analysisVars, promptVars,
                   callVars>>

\* process_multiple_pdfs_analysis 557-588: the extraction of file jidx is
\* back; then the next file, or the end of the loop.  On a deleted record
\* the remaining files are skipped (KeyError, continue) and the task ends
\* in its handler.
BatchFileDone ==
    /\ jpc = "extract" /\ jmode = "batch"
    /\ \E outcome \in {"ok", "error"} :
          LET extracted == IF outcome = "ok" THEN Append(jextracted, outcome)
                           ELSE jextracted
          IN /\ jextracted' = extracted
             /\ IF jidx + 1 < jnfiles
                THEN /\ TaskGoesOn(batch_progress(jidx + 1, jnfiles),
                                   "extract")
                     /\ jidx' = IF Present THEN jidx + 1 ELSE jidx
                ELSE /\ jidx' = jidx
                     /\ IF extracted = <<>>
                        THEN TaskFails(NoContentError)
                        ELSE TaskGoesOn(progress_at("combine"), "combine")
    /\ UNCHANGED <<jmode, jnfiles, jdepth, jprompts, jphases, jfinal,
                   jquery, jdeleted>>
    /\ UNCHANGED <<canonVars, extractVars, analysisVars, promptVars,
                   callVars>>

\* process_multiple_pdfs_analysis 590-636: the contents are combined
CombineContents ==
    /\ jpc = "combine"
    /\ TaskGoesOn(progress_at("analysis"), "budget")
    /\ jphases' = NoPhaseResults
    /\ UNCHANGED <<jmode, jnfiles, jdepth, jidx, jextracted, jprompts,
                   jfinal, jquery, jdeleted>>
    /\ UNCHANGED <<canonVars, extractVars, analysisVars, promptVars,
                   callVars>>

\* one prompt of _multi_prompt_analysis: the prompts it sends and the
\* result it leaves in analysis_results
PromptsOf(run, phase) == [i \in 1..run.calls |-> phase]

PhaseResult(run, payload) ==
    IF Succeeded(run.result) THEN [run.result EXCEPT !.data = payload]
    ELSE None

\* 355: if analysis_depth in ["full", "detailed"]
wants_later_phases(depth) == depth \in {"full", "detailed"}

\* _multi_prompt_analysis 348-352
BudgetPhase ==
    /\ jpc = "budget"
    /\ \E run \in PromptRuns, payload \in BudgetPayloads :
          /\ jprompts' = jprompts \o PromptsOf(run, "budget")
          /\ jphases' = [jphases EXCEPT
                            !.budget_analysis = PhaseResult(run, payload)]
    /\ jpc' = IF wants_later_phases(jdepth) THEN "risk" ELSE "finish"
    /\ UNCHANGED <<jstore, jtemp, jmode, jnfiles, jdepth, jidx, jextracted,
                   jfinal, jquery, jdeleted>>
    /\ UNCHANGED <<canonVars, extractVars, analysisVars, promptVars,
                   callVars>>

\* _multi_prompt_analysis 355-359
RiskPhase ==
    /\ jpc = "risk"
    /\ \E run \in PromptRuns :
          /\ jprompts' = jprompts \o PromptsOf(run, "risk")
          /\ jphases' = [jphases EXCEPT
                            !.risk_analysis = PhaseResult(run, RiskPayload)]
    /\ jpc' = "provider"
    /\ UNCHANGED <<jstore, jtemp, jmode, jnfiles, jdepth, jidx, jextracted,
                   jfinal, jquery, jdeleted>>
    /\ UNCHANGED <<canonVars, extractVars, analysisVars, promptVars,
                   callVars>>

\* _multi_prompt_analysis 361-365
ProviderPhase ==
    /\ jpc = "provider"
    /\ \E run \in PromptRuns, payload \in ProviderPayloads :
          /\ jprompts' = jprompts \o PromptsOf(run, "provider")
          /\ jphases' =
                [jphases EXCEPT
                    !.provider_analysis = PhaseResult(run, payload)]
    /\ jpc' = "finish"
    /\ UNCHANGED <<jstore, jtemp, jmode, jnfiles, jdepth, jidx, jextracted,
                   jfinal, jquery, jdeleted>>
    /\ UNCHANGED <<canonVars, extractVars, analysisVars, promptVars,
                   callVars>>

\* what a prompt can leave in analysis_results
PhaseOutcomes(payloads) ==
    {PhaseResult(run, payload) : run \in PromptRuns, payload \in payloads}

\* analysis_results at the end of _multi_prompt_analysis 342-367
AnalysisResults ==
    [budget_analysis : PhaseOutcomes(BudgetPayloads),
     risk_analysis : PhaseOutcomes({RiskPayload}) \cup {None},
     provider_analysis : PhaseOutcomes(ProviderPayloads) \cup {None}]

\* finish_analysis on every analysis_results and every processed content,
\* computed once
finished_analyses ==
    {[analysis_results |-> analysis_results,
      final |-> finish_analysis(analysis_results, processed_content)] :
        analysis_results \in AnalysisResults,
        processed_content \in ProcessedContents}

\* 307-312 without the progress
completed_record_keeps_progress(record, final) ==
    [record EXCEPT !.status = "completed", !.data = final]

\* 307-312 leaving the status as it was
completed_record_unmarked(record, final) ==
    [record EXCEPT !.progress = progress_at("completed"), !.data = final]

\* process_pdf_analysis 307-312, process_multiple_pdfs_analysis 663-668:
\* the update that ends a successful job
completed_record(record, final) ==
    [record EXCEPT !.status = "completed",
                   !.progress = progress_at("completed"),
                   !.data = final]

\* analyze_mop_document_detailed 68-84, then process_pdf_analysis 292-332
\* (process_multiple_pdfs_analysis 636-691): the analysis is stored, the
\* job is completed, the files are cleaned
Finish ==
    /\ jpc = "finish"
    /\ \E finished \in finished_analyses :
          /\ finished.analysis_results = jphases
          /\ jfinal' = finished.final
    /\ IF Present
       THEN /\ jstore' = completed_record(jstore, jfinal')
            /\ jpc' = "finished"
            /\ jtemp' \in TaskCleanupOutcomes(jtemp)
       ELSE TaskFails("KeyError")
    /\ UNCHANGED <<jmode, jnfiles, jdepth, jidx, jextracted, jprompts,
                   jphases, jquery, jdeleted>>
    /\ UNCHANGED <<canonVars, extractVars, analysisVars, promptVars,
                   callVars>>

\* delete_analysis_result 207-216 leaving the record in the store
delete_record_kept(record) == record

\* delete_analysis_result 216: del analysis_results[analysis_id]
delete_record(record) == None

\* delete_analysis_result, on a job that is in the store (else HTTP 404)
Delete ==
    /\ Present
    /\ jtemp' \in CleanupOutcomes(jtemp)
    /\ jstore' = delete_record(jstore)
    /\ jdeleted' = TRUE
    /\ UNCHANGED <<jpc, jmode, jnfiles, jdepth, jidx, jextracted, jprompts,
                   jphases, jfinal, jquery>>
    /\ UNCHANGED <<canonVars, extractVars, analysisVars, promptVars,
                   callVars>>

\* get_analysis_result: the answer to a status query
status_response(record) ==
    IF IsNone(record)
    THEN [http |-> 404, detail |-> "Analisis no encontrado"]
    ELSE IF record.status = "processing"
    THEN [http |-> 202, status |-> "processing",
          progress |-> Get(record, "progress", 0),
          message |-> "Analisis en progreso..."]
    ELSE IF record.status = "completed"
    THEN [http |-> 200, content |-> record.data]
    ELSE IF record.status = "error"
    THEN [http |-> 500, status |-> "error",
          error |-> Get(record, "error", "Error desconocido"),
          message |-> "Error durante el procesamiento"]
    ELSE [http |-> 500, detail |-> "Estado de analisis desconocido"]

Query ==
    /\ jpc # "request"
    /\ jquery' = status_response(jstore)
    /\ UNCHANGED <<jstore, jtemp, jpc, jmode, jnfiles, jdepth, jidx,
                   jextracted, jprompts, jphases, jfinal, jdeleted>>
    /\ UNCHANGED <<canonVars, extractVars, analysisVars, promptVars,
                   callVars>>

NextJob ==
    \/ SubmitRejected \/ SubmitAccepted \/ TaskStart \/ ExtractDone
    \/ BatchFileDone \/ CombineContents \/ BudgetPhase \/ RiskPhase
    \/ ProviderPhase \/ Finish \/ Delete \/ Query

SpecJob == InitJob /\ [][NextJob]_vars

(***************************************************************************)
(* Properties of the prompt phases and of the job (under SpecJob)          *)
(***************************************************************************)
BudgetPhaseDone == ~IsNone(jphases) /\ jpc \notin {"combine", "budget"}

BudgetFailed == BudgetPhaseDone /\ IsNone(jphases.budget_analysis)

\* C11 as stated: when the budget phase has failed all its attempts, the
\* service receives no risk prompt nor any further prompt in that run.
C11_NoPromptAfterBudgetFailure ==
    BudgetFailed => \A i \in 1..Len(jprompts) : jprompts[i] = "budget"

\* C12 as stated: when the budget phase has failed all its attempts, the
\* final analysis carries a requires-manual-review flag set to true and a
\* confidence score no higher than the fallback ceiling (40, the score of
\* the basic analysis).
C12_BudgetFailureIsFlagged ==
    (BudgetFailed /\ ~IsNone(jfinal)) =>
        /\ Get(jfinal.metadata, "requires_manual_review", FALSE)
        /\ jfinal.metadata.confidence_score <= 40

LaterPhaseFailed ==
    /\ jpc = "finished" /\ Present /\ ~IsNone(jphases)
    /\ Succeeded(jphases.budget_analysis)
    /\ wants_later_phases(jdepth)
    /\ IsNone(jphases.risk_analysis) \/ IsNone(jphases.provider_analysis)

\* the analysis holds the items of the payload and a corrected breakdown
HoldsContent(final, payload) ==
    /\ IsCorrected(final.analysis)
    /\ \A key \in {"materiales_detallados", "mano_obra_detallada",
                   "equipos_maquinaria_detallados"} :
          final.analysis[key] = payload[key]

\* C13 as stated: when the budget phase succeeds and a later phase fails
\* all its attempts, the job ends completed, never in error, and the final
\* analysis holds the content of the budget phase.
C13_LaterFailureKeepsContent ==
    LaterPhaseFailed =>
        /\ jstore.status = "completed"
        /\ HoldsContent(jstore.data, jphases.budget_analysis.data)

\* C13: when the budget phase succeeds and a later phase fails all its
\* attempts, the job ends completed, never in error; the final analysis
\* holds the content of the budget phase, unless consolidating that
\* content raises (a subtotal that is a text, a malformed payload of the
\* other later phase), and then the final analysis is the fallback
\* response.
C13_LaterFailureCompletes ==
    LaterPhaseFailed =>
        /\ jstore.status = "completed"
        /\ IF ConsolidationRaises(jphases)
           THEN jstore.data = create_fallback_response
           ELSE HoldsContent(jstore.data, jphases.budget_analysis.data)

\* the budget phase succeeded, the risk and the provider phases used up
\* their attempts, and the job is completed with the budget content
C13_Witness ==
    /\ LaterPhaseFailed
    /\ IsNone(jphases.risk_analysis) /\ IsNone(jphases.provider_analysis)
    /\ Len(jprompts) >= 2 * max_retries + 1
    /\ jstore.status = "completed"
    /\ HoldsContent(jstore.data, jphases.budget_analysis.data)
    /\ jstore.data.metadata.validation_warnings # <<>>

\* C14: as long as the job has a status record, its status is one of
\* processing, completed, error, its progress is within 0..100, and no
\* step of the job, on the success path or on a failure path, lowers the
\* progress.
C14_StatusAndProgress ==
    /\ [](Present =>
            /\ jstore.status \in {"processing", "completed", "error"}
            /\ jstore.progress \in 0..100)
    /\ [][(Present /\ Present') => jstore'.progress >= jstore.progress]_vars

\* a batch job that failed after its progress had moved: the record is in
\* error and keeps the progress reached
C14_Witness ==
    /\ Present /\ jmode = "batch"
    /\ jstore.status = "error"
    /\ jstore.progress \in 1..99

ERROR_CODES ==
    {[code |-> "E001", message |-> "Solo archivos PDF validos son aceptados"],
     [code |-> "E002",
      message |-> "Archivo excede el tamano maximo permitido"],
     [code |-> "E003",
      message |-> "El archivo PDF esta corrupto o no se puede leer"],
     [code |-> "E004", message |-> "No se pudo extraer contenido del PDF"],
     [code |-> "E005",
      message |->
          "No se encontraron datos presupuestarios en el documento"],
     [code |-> "E006", message |-> "Error en el servicio de analisis de IA"],
     [code |-> "E007", message |-> "Limite de solicitudes alcanzado"],
     [code |-> "E008",
      message |->
          "El procesamiento del documento excedio el tiempo limite"],
     [code |-> "E009",
      message |-> "El documento no parece ser una licitacion MOP valida"],
     [code |-> "E010", message |-> "Sistema temporalmente sobrecargado"]}

\* get_error_info: the entry returned for a key that is not in ERROR_CODES
UnknownError == [code |-> "E999", message |-> "Error desconocido"]

\* C16 as stated: when the job is in error, the answer to a status query
\* carries an error code and a message that are an entry of ERROR_CODES
\* (or the entry get_error_info gives for an unknown key), never the text
\* of the exception.
C16_ErrorFromCatalog ==
    (Present /\ jstore.status = "error") =>
        LET answer == status_response(jstore)
        IN \E entry \in ERROR_CODES \cup {UnknownError} :
              /\ Get(answer, "code", "") = entry.code
              /\ answer.error = entry.message

(***************************************************************************)
(* SpecCurrency: constants.py clean_currency_string, applied to amounts    *)
(* written as a prefix, a first digit group and separated digit groups.    *)
(* A text is a sequence of characters; a float is kept as its decimal      *)
(* digits, without leading zeros of the whole part nor trailing zeros of   *)
(* the fraction.                                                           *)
(***************************************************************************)
MaxGroups == 3

CurrencyPrefixes == {<<>>, <<"$", " ">>, <<"x">>}

FirstGroups == {<<>>, <<"1">>}

DigitGroups == {<<"2", "3", "4">>, <<"5", "6", "7">>, <<"5", "0">>, <<>>}

Separators == {".", ","}

\* the amounts given to the function
CurrencyInputs ==
    [prefix : CurrencyPrefixes, first : FirstGroups,
     tail : SeqsUpTo([sep : Separators, group : DigitGroups], MaxGroups)]

RECURSIVE TailText(_)
TailText(tail) ==
    IF tail = <<>> THEN <<>>
    ELSE <<Head(tail).sep>> \o Head(tail).group \o TailText(Tail(tail))

\* the text of an amount
CurrencyText(input) == input.prefix \o input.first \o TailText(input.tail)

RECURSIVE lstrip_zeros(_)
lstrip_zeros(digits) ==
    IF digits # <<>> /\ Head(digits) = "0" THEN lstrip_zeros(Tail(digits))
    ELSE digits

RECURSIVE rstrip_zeros(_)
rstrip_zeros(digits) ==
    IF digits # <<>> /\ digits[Len(digits)] = "0"
    THEN rstrip_zeros(SubSeq(digits, 1, Len(digits) - 1))
    ELSE digits

\* the float written whole.frac
Number(whole, frac) ==
    [whole |-> lstrip_zeros(whole), frac |-> rstrip_zeros(frac)]

Zero == Number(<<>>, <<>>)

\* 262: re.sub(r'[^\d,\.]', '', str(value))
remove_symbols(value) ==
    SelectSeq(value, LAMBDA ch : ch \in Digits \cup {",", "."})

\* str.replace(ch, '')
remove_char(text, ch) == SelectSeq(text, LAMBDA c : c # ch)

\* str.replace(',', '.')
commas_to_points(text) ==
    [i \in 1..Len(text) |-> IF text[i] = "," THEN "." ELSE text[i]]

\* 269-270: len(cleaned.split(',')[-1]), for a text that holds a comma
len_last_part(text) ==
    Len(text) - (CHOOSE i \in Positions(text, ",") :
                    \A j \in Positions(text, ",") : j <= i)

\* float() accepts digits with at most one point and at least one digit
is_float(text) ==
    /\ \A i \in 1..Len(text) : text[i] \in Digits \cup {"."}
    /\ Cardinality(Positions(text, ".")) <= 1
    /\ \E i \in 1..Len(text) : text[i] \in Digits

float_value(text) ==
    IF Positions(text, ".") = {} THEN Number(text, <<>>)
    ELSE LET point == CHOOSE i \in Positions(text, ".") : TRUE
         IN Number(SubSeq(text, 1, point - 1),
                   SubSeq(text, point + 1, Len(text)))

\* 276-279 without the except clause: the ValueError of float() escapes
float_or_raise(text) ==
    IF is_float(text) THEN [raised |-> FALSE, value |-> float_value(text)]
    ELSE [raised |-> TRUE, value |-> Zero]

\* 276-279: try: return float(cleaned) / except ValueError: return 0.0
float_or_zero(text) ==
    IF is_float(text) THEN [raised |-> FALSE, value |-> float_value(text)]
    ELSE [raised |-> FALSE, value |-> Zero]

\* 265-274: points are thousands and the comma is the decimal sign when
\* both are there; a lone comma is read by the length of what follows it
currency_separators(cleaned) ==
    IF Positions(cleaned, ",") # {} /\ Positions(cleaned, ".") # {}
    THEN commas_to_points(remove_char(cleaned, "."))
    ELSE IF Positions(cleaned, ",") # {}
    THEN IF len_last_part(cleaned) = 3 THEN remove_char(cleaned, ",")
         ELSE commas_to_points(cleaned)
    ELSE cleaned

clean_currency_string(value) ==
    IF value = <<>> THEN [raised |-> FALSE, value |-> Zero]
    ELSE float_or_zero(currency_separators(remove_symbols(value)))

InitCurrency ==
    /\ CanonDefaults /\ ExtractDefaults /\ AnalysisDefaults
    /\ PromptDefaults /\ JobDefaults
    /\ fname = "pending"
    /\ farg \in CurrencyInputs
    /\ fresult = None

CleanCurrency ==
    /\ fname = "pending"
    /\ fname' = "clean_currency_string"
    /\ fresult' = clean_currency_string(CurrencyText(farg))
    /\ UNCHANGED farg
    /\ UNCHANGED <<canonVars, extractVars, analysisVars, promptVars,
                   jobVars>>

NextCurrency == CleanCurrency

SpecCurrency == InitCurrency /\ [][NextCurrency]_vars

CurrencyReturned == fname = "clean_currency_string"

HasDigit(text) == \E i \in 1..Len(text) : text[i] \in Digits

\* C17: clean_currency_string never raises; it maps "1.234.567,50" to
\* 1234567.50, "1,234,567" to 1234567, and a text it cannot read as a
\* number, the empty text and a text without digits included, to 0.
C17_CleanCurrencyExamples ==
    CurrencyReturned =>
        LET text == CurrencyText(farg)
        IN /\ ~fresult.raised
           /\ text = <<"1", ".", "2", "3", "4", ".", "5", "6", "7", ",",
                       "5", "0">>
                 => fresult.value =
                        Number(<<"1", "2", "3", "4", "5", "6", "7">>,
                               <<"5", "0">>)
           /\ text = <<"1", ",", "2", "3", "4", ",", "5", "6", "7">>
                 => fresult.value =
                        Number(<<"1", "2", "3", "4", "5", "6", "7">>, <<>>)
           /\ ~HasDigit(text) => fresult.value = Zero
           /\ ~is_float(currency_separators(remove_symbols(text)))
                 => fresult.value = Zero

\* the function has returned 1234567.5 for "1.234.567,50"
C17_Witness ==
    /\ CurrencyReturned
    /\ CurrencyText(farg) = <<"1", ".", "2", "3", "4", ".", "5", "6", "7",
                              ",", "5", "0">>
    /\ fresult = [raised |-> FALSE,
                  value |-> [whole |-> <<"1", "2", "3", "4", "5", "6", "7">>,
                             frac |-> <<"5">>]]

\* an amount in Chilean format: an optional "$ ", digit groups separated
\* by points, an optional comma and two decimals
IsChilean(input) ==
    /\ input.prefix \in {<<>>, <<"$", " ">>}
    /\ input.first # <<>>
    /\ \A i \in 1..Len(input.tail) :
          \/ input.tail[i].sep = "." /\ Len(input.tail[i].group) = 3
          \/ /\ i = Len(input.tail)
             /\ input.tail[i].sep = "," /\ Len(input.tail[i].group) = 2

RECURSIVE PointGroups(_)
PointGroups(tail) ==
    IF tail = <<>> \/ Head(tail).sep # "." THEN <<>>
    ELSE Head(tail).group \o PointGroups(Tail(tail))

\* the number a Chilean amount stands for: the points removed, the comma
\* read as the decimal sign
ChileanValue(input) ==
    Number(input.first \o PointGroups(input.tail),
           IF input.tail # <<>> /\ input.tail[Len(input.tail)].sep = ","
           THEN input.tail[Len(input.tail)].group ELSE <<>>)

\* C18 as stated: clean_currency_string reads the Chilean format: for
\* digit groups separated by points, with an optional leading "$ " and an
\* optional comma and two decimals, it returns the number with the points
\* removed ("$ 1.234.567" gives 1234567, "1.234" gives 1234).
C18_ReadsChileanFormat ==
    (CurrencyReturned /\ IsChilean(farg)) =>
        fresult.value = ChileanValue(farg)

(***************************************************************************)
(* SpecMerge: the loop of process_multiple_pdfs_analysis that combines     *)
(* the project_info of the extracted documents, one document a step.       *)
(* farg holds the project_info of every document, in document order;       *)
(* fresult holds the number of documents combined and the combined dict.   *)
(***************************************************************************)
MaxDocs == 3

ProjectInfoKeys == {"proyecto_nombre", "region"}

\* what _extract_project_info finds for a key: a text, possibly empty
ProjectInfoValues == {"", "Ruta 5", "Ruta 68"}

\* the project_info of one document
ProjectInfos ==
    UNION {[keys -> ProjectInfoValues] : keys \in SUBSET ProjectInfoKeys}

\* 603-607 without "and not combined_content["project_info"].get(key)":
\* a later value replaces the one already there
merge_project_info_overwrite(combined, info) ==
    [key \in DOMAIN combined \cup {k \in DOMAIN info : info[k] # ""} |->
        IF key \in DOMAIN info /\ info[key] # "" THEN info[key]
        ELSE combined[key]]

\* 603-607: a value is taken when it is not empty and the combined dict
\* has no value, or an empty one, under that key
merge_project_info(combined, info) ==
    [key \in DOMAIN combined \cup {k \in DOMAIN info : info[k] # ""} |->
        IF key \in DOMAIN info /\ info[key] # ""
              /\ Get(combined, key, "") = ""
        THEN info[key]
        ELSE combined[key]]

InitMerge ==
    /\ CanonDefaults /\ ExtractDefaults /\ AnalysisDefaults
    /\ PromptDefaults /\ JobDefaults
    /\ fname = "combine_project_info"
    /\ farg \in UNION {[1..n -> ProjectInfos] : n \in 1..MaxDocs}
    /\ fresult = [idx |-> 0, project_info |-> EmptyDict]

\* one iteration of "for extracted in all_extracted_content" (590, 603-607)
MergeProjectInfo ==
    /\ fname = "combine_project_info"
    /\ fresult.idx < Len(farg)
    /\ fresult' =
          [idx |-> fresult.idx + 1,
           project_info |->
               merge_project_info(fresult.project_info,
                                  farg[fresult.idx + 1])]
    /\ UNCHANGED <<fname, farg>>
    /\ UNCHANGED <<canonVars, extractVars, analysisVars, promptVars,
                   jobVars>>

NextMerge == MergeProjectInfo

SpecMerge == InitMerge /\ [][NextMerge]_vars

\* the documents among the first n that have a non-empty value under key
DocsWithValue(docs, n, key) ==
    {i \in 1..n : key \in DOMAIN docs[i] /\ docs[i][key] # ""}

\* the first non-empty value under key among the first n documents
FirstNonEmpty(docs, n, key) ==
    LET with == DocsWithValue(docs, n, key)
    IN IF with = {} THEN ""
       ELSE docs[CHOOSE i \in with : \A j \in with : i <= j][key]

\* C19: in batch mode every field of the combined project metadata holds
\* the first non-empty value of that field in document order, and a field
\* that holds a value is never overwritten by a later document.
C19_FirstNonEmptyWins ==
    /\ [](fname = "combine_project_info" =>
            \A key \in ProjectInfoKeys :
                Get(fresult.project_info, key, "") =
                    FirstNonEmpty(farg, fresult.idx, key))
    /\ [][fname = "combine_project_info" =>
            \A key \in ProjectInfoKeys :
                Get(fresult.project_info, key, "") # "" =>
                    Get(fresult'.project_info, key, "") =
                        fresult.project_info[key]]_vars

\* two documents give different values for a field, and the combined
\* metadata holds the value of the first one
C19_Witness ==
    /\ fname = "combine_project_info"
    /\ Len(farg) >= 2 /\ fresult.idx = Len(farg)
    /\ \E key \in ProjectInfoKeys :
          /\ DocsWithValue(farg, 2, key) = {1, 2}
          /\ farg[1][key] # farg[2][key]
          /\ fresult.project_info[key] = farg[1][key]

(***************************************************************************)
(* SpecItems: analyze_mop_document_detailed on the items of one document:  *)
(* step 1 cleans the extracted items, steps 4 to 6 build the final         *)
(* analysis from the budget payload of the service.  farg holds the        *)
(* extracted items and the items read from tables; fresult holds the       *)
(* cleaned items and then the final analysis.                              *)
(***************************************************************************)
InitItems ==
    /\ CanonDefaults /\ ExtractDefaults /\ AnalysisDefaults
    /\ PromptDefaults /\ JobDefaults
    /\ fname = "preprocess"
    /\ farg \in [raw_items : SeqsUpTo(RawItems, MaxRawItems),
                 table_items : TableItemLists]
    /\ fresult = None

\* step 1, _preprocess_mop_content 104
PreprocessItems ==
    /\ fname = "preprocess"
    /\ fname' = "analyze"
    /\ fresult' =
          [processed_items |->
               process_budget_items(farg.raw_items, farg.table_items),
           budget_analysis |-> None,
           final |-> None]
    /\ UNCHANGED farg
    /\ UNCHANGED <<canonVars, extractVars, analysisVars, promptVars,
                   jobVars>>

\* steps 3 to 6: the budget prompt failed or left a payload
AnalyzeItems ==
    /\ fname = "analyze"
    /\ fname' = "analyzed"
    /\ \E budget_analysis \in
              {None} \cup {[success |-> TRUE, data |-> payload] :
                              payload \in BudgetPayloads} :
          fresult' =
              [fresult EXCEPT
                  !.budget_analysis = budget_analysis,
                  !.final =
                      finish_analysis(
                          [NoPhaseResults EXCEPT
                              !.budget_analysis = budget_analysis],
                          ProcessedContent(0, fresult.processed_items))]
    /\ UNCHANGED farg
    /\ UNCHANGED <<canonVars, extractVars, analysisVars, promptVars,
                   jobVars>>

NextItems == PreprocessItems \/ AnalyzeItems

SpecItems == InitItems /\ [][NextItems]_vars

AllConsistent(items) ==
    \A i \in 1..Len(items) : ~ItemIsInconsistent(items[i])

\* the line items of a final analysis: those of the corrected payload,
\* those of the basic analysis, none in the fallback response
FinalItems(final) ==
    IF IsCorrected(final.analysis)
    THEN final.analysis.materiales_detallados
             \o final.analysis.mano_obra_detallada
             \o final.analysis.equipos_maquinaria_detallados
    ELSE IF "analysis" \in DOMAIN final.analysis
    THEN final.analysis.analysis.materiales_detallados
    ELSE <<>>

\* C20 as stated: every line item of the final analysis with positive
\* quantity and unit price has a subtotal within the tolerance (100 pesos)
\* of quantity * unit price.
C20_FinalItemsReconciled ==
    fname = "analyzed" => AllConsistent(FinalItems(fresult.final))

\* C20: every extracted line item with positive quantity and unit price
\* has, once cleaned, a subtotal within the tolerance of quantity * unit
\* price (its subtotal is replaced when it was off); the line items of the
\* service payload are not reconciled: a materials item that is off stays
\* in the final analysis together with a validation warning, and there is
\* always a final analysis.
C20_CleanedItemsReconciled ==
    /\ fname \in {"analyze", "analyzed"} =>
          AllConsistent(fresult.processed_items)
    /\ fname = "analyzed" =>
          /\ ~IsNone(fresult.final)
          /\ IsCorrected(fresult.final.analysis) =>
                \A i \in 1..Len(fresult.final.analysis
                                    .materiales_detallados) :
                    ItemIsInconsistent(
                        fresult.final.analysis.materiales_detallados[i])
                        => fresult.final.metadata.validation_warnings
                               # <<>>

\* an extracted item that was off has been cleaned, and the payload item
\* that is off is in the final analysis with a warning
C20_Witness ==
    /\ fname = "analyzed"
    /\ \E i \in 1..Len(farg.raw_items) :
          ItemIsInconsistent(farg.raw_items[i])
    /\ fresult.processed_items # <<>>
    /\ AllConsistent(fresult.processed_items)
    /\ IsCorrected(fresult.final.analysis)
    /\ ~AllConsistent(fresult.final.analysis.materiales_detallados)
    /\ fresult.final.metadata.validation_warnings # <<>>

(***************************************************************************)
(* Properties of the pooled line items (under SpecExtract)                 *)
(***************************************************************************)
\* the list handed to _post_process_results
PooledItems == {results.budget_items[i] : i \in 1..Len(results.budget_items)}

\* the items a successful call recovered from the rows of its tables
TableItemsOf(call) ==
    UNION {{call.tables[i].items[j] : j \in 1..Len(call.tables[i].items)} :
              i \in 1..Len(call.tables)}

\* C21 as stated: when the strategies have run, every line item recovered
\* by a successful strategy, the items parsed from the rows of its tables
\* included, is in the pooled list handed to canonicalization.
C21_AllItemsPooled ==
    pc = "post" =>
        \A i \in 1..Len(calls) :
            calls[i].outcome = "ok" =>
                /\ \A j \in 1..Len(calls[i].budget_items) :
                      calls[i].budget_items[j] \in PooledItems
                /\ TableItemsOf(calls[i]) \subseteq PooledItems

\* C23 as stated: when the OCR fallback has run and succeeded, every line
\* item the text patterns match in its text is in the pooled line items of
\* the extraction.
C23_OcrTextIsScanned ==
    pc = "post" =>
        \A i \in 1..Len(calls) :
            (calls[i].method = "_extract_with_ocr"
                /\ calls[i].outcome = "ok") =>
                LET items == extract_budget_items_from_text(calls[i].matches)
                IN \A j \in 1..Len(items) : items[j] \in PooledItems

(***************************************************************************)
(* The job when an external call may never return (SpecJobHang), and the   *)
(* job when every external call returns or raises (SpecJobLive).  The task *)
(* is a coroutine queued on the event loop by BackgroundTasks: once queued *)
(* it is run, and it is resumed whenever the call it awaits is back, which *)
(* is weak fairness of its steps.                                          *)
(***************************************************************************)
\* the steps of the two tasks
TaskStep ==
    \/ TaskStart \/ ExtractDone \/ BatchFileDone \/ CombineContents
    \/ BudgetPhase \/ RiskPhase \/ ProviderPhase \/ Finish

\* extract_comprehensive 102 "await method(pdf_path)" and
\* _execute_claude_prompt 1076 "self.client.messages.create(...)": the call
\* is made as it is, with no asyncio.wait_for and no timeout argument, so
\* a call that never returns leaves the task waiting in it
CallHangs ==
    /\ jpc \in {"extract", "budget", "risk", "provider"}
    /\ jpc' = "hung"
    /\ UNCHANGED <<jstore, jtemp, jmode, jnfiles, jdepth, jidx, jextracted,
                   jprompts, jphases, jfinal, jquery, jdeleted>>
    /\ UNCHANGED <<canonVars, extractVars, analysisVars, promptVars,
                   callVars>>

\* the requests that write the store, and the task; get_analysis_result
\* (137-188) only reads the record and is left to SpecJob
NextJobLive == SubmitRejected \/ SubmitAccepted \/ TaskStep \/ Delete

NextJobHang == NextJobLive \/ CallHangs

SpecJobHang == InitJob /\ [][NextJobHang]_vars /\ WF_vars(TaskStep)

SpecJobLive == InitJob /\ [][NextJobLive]_vars /\ WF_vars(TaskStep)

Processing == Present /\ jstore.status = "processing"

\* C22 as stated: a strategy call or a generation call that never returns
\* is cut by a timeout and handled like a call that raised, so the job does
\* not stay in status processing for ever.
C22_HangingCallIsBounded == (jpc = "hung" /\ Processing) ~> ~Processing

\* C25: when every external call returns or raises, a job that is in
\* status processing and is not deleted leaves it for completed or error.
C25_JobLeavesProcessing ==
    Processing ~> (~Present \/ jstore.status \in {"completed", "error"})

\* a job that was never deleted has ended, completed or in error
C25_Witness ==
    /\ jpc = "finished" /\ ~jdeleted /\ Present
    /\ jstore.status \in {"completed", "error"}

(***************************************************************************)
(* Properties of the risk phase (under SpecJob)                            *)
(***************************************************************************)
\* the analysis has ended with a budget result and without a risk result
RiskPhaseFailed ==
    /\ jpc = "finished" /\ ~IsNone(jfinal) /\ ~IsNone(jphases)
    /\ Succeeded(jphases.budget_analysis)
    /\ wants_later_phases(jdepth)
    /\ IsNone(jphases.risk_analysis)

FinalRisks == Get(jfinal.analysis, "analisis_riesgos_detallado", <<>>)

\* C24 as stated: when the risk phase fails all its attempts while the
\* first phase succeeded, the final analysis holds the fixed generic risk
\* set, put there in place of the missing risks, and the job is not aborted.
C24_GenericRisksSubstituted ==
    RiskPhaseFailed =>
        /\ FinalRisks \in {BasicRisks, FallbackRisks}
        /\ Present => jstore.status = "completed"

\* C24: when the risk phase fails all its attempts while the first phase
\* succeeded, the job is not aborted and nothing is put in place of the
\* missing risks: the final analysis holds the risks of the budget answer
\* as they came, unless the consolidation raises, and then it is the
\* fallback response.
C24_BudgetRisksKept ==
    RiskPhaseFailed =>
        /\ Present => jstore.status = "completed"
        /\ IF ConsolidationRaises(jphases)
           THEN jfinal = create_fallback_response
           ELSE FinalRisks =
                    jphases.budget_analysis.data.analisis_riesgos_detallado

\* a completed job whose risk prompt failed and whose final analysis holds
\* the risks of the budget answer
C24_Witness ==
    /\ RiskPhaseFailed /\ Present /\ jstore.status = "completed"
    /\ ~ConsolidationRaises(jphases)
    /\ FinalRisks = BudgetRisks
    /\ FinalRisks \notin {BasicRisks, FallbackRisks}

(***************************************************************************)
(* Properties of the store and of the temporary files (under SpecJob)      *)
(***************************************************************************)
\* C26 as stated: a delete request served while the task is running never
\* makes the task end with an unhandled exception: every access of the
\* task to the status record, the one of its error handler included, is
\* safe when the record has been removed.
C26_DeleteNeverCrashesTask == jdeleted => jpc # "crashed"

\* C27 as stated: a submission answered with an HTTP error (bad
\* extension, empty file, invalid PDF, size limit), of one file or of
\* several, leaves no state: no status record and no temporary file.
C27_RejectionLeavesNothing == jpc = "rejected" => (~Present /\ jtemp = {})

(***************************************************************************)
(* Valid candidates and their duplicates (under SpecCanon)                 *)
(***************************************************************************)
\* C28 as stated: canonicalization never loses a valid candidate to an
\* invalid duplicate: when the pooled list holds an item that passes the
\* validation, the canonical set holds an item with its deduplication key
\* (code and first 50 characters of the description), whatever the order
\* of the pooled items.
C28_ValidNeverShadowed ==
    cstage = "validated" =>
        \A i \in Indices(cpooled) :
            PassesValidation(cpooled[i]) =>
                \E k \in Indices(ccanon) : SameKey(ccanon[k], cpooled[i])

(***************************************************************************)
(* The terminal statuses (under SpecJob)                                   *)
(***************************************************************************)
Terminal == Present /\ jstore.status \in {"completed", "error"}

\* C29: completed and error are terminal: once the record has one of them,
\* no step changes its status, its data or its error, and only a delete
\* request removes the record; a completed record has progress 100 and a
\* result.
C29_TerminalStatuses ==
    /\ []((Present /\ jstore.status = "completed") =>
             /\ jstore.progress = 100
             /\ ~IsNone(jstore.data))
    /\ [][Terminal =>
             IF Present'
             THEN /\ jstore'.status = jstore.status
                  /\ jstore'.data = jstore.data
                  /\ jstore'.error = jstore.error
             ELSE jdeleted' /\ ~jdeleted]_vars

\* a completed job and a failed job, each asked for after its end
C29_Witness ==
    /\ Terminal /\ jpc = "finished" /\ ~IsNone(jquery)
    /\ \/ jstore.status = "completed" /\ jquery.http = 200
       \/ jstore.status = "error" /\ jquery.http = 500

(***************************************************************************)
(* The validation of a final analysis (under SpecAnalysis)                 *)
(***************************************************************************)
\* the items of the list the validation walks (984-987) that it reports
ItemWarnings(analysis_data) ==
    Len(SelectSeq(Get(analysis_data, "materiales_detallados", <<>>),
                  ItemIsInconsistent))

\* C30: in every final analysis that analyze_mop_document_detailed builds
\* without an internal exception the list of validation errors is empty
\* and is_valid is true, because the validation reads the totals and the
\* tax that the corrections have just written; the confidence score is
\* max(0, 100 - 10 * the number of item warnings).
C30_ValidationNeverFails ==
    (apc = "done" /\ afinal # create_fallback_response) =>
        LET warned == ItemWarnings(afinal.analysis)
        IN /\ afinal.metadata.validation_errors = <<>>
           /\ afinal.metadata.is_valid
           /\ Len(afinal.metadata.validation_warnings) = warned
           /\ afinal.metadata.confidence_score =
                  IF 100 - 10 * warned > 0 THEN 100 - 10 * warned ELSE 0

\* a corrected analysis whose payload named another total than its items
\* give, with items that are off: valid, and scored by the items alone
C30_Witness ==
    /\ apc = "done" /\ IsCorrected(afinal.analysis)
    /\ ItemWarnings(afinal.analysis) \in 1..9
    /\ afinal.metadata.confidence_score
           = 100 - 10 * ItemWarnings(afinal.analysis)
    /\ afinal.analysis.presupuesto_estimado.total_clp
           = afinal.analysis.desglose_costos_detallado.impuestos.total_final

====
